---- MODULE Spec2Model ----
(***************************************************************************)
(* Execution engine of the trading-signal platform: SignalExecutor         *)
(* (backend/core/execution_state_manager.py), the execution routes         *)
(* (backend/api/routes.py), the listener bridge (backend/main.py), the     *)
(* position synchronizer (backend/core/sync_manager.py) and the part of    *)
(* the MT5 adapter they call (backend/core/mt5_executor.py).               *)
(*                                                                         *)
(* One Signal with its parsed_data is fixed at Init; its TradeExecution    *)
(* rows live in db (the committed rows).  Every handler runs on its own    *)
(* SQLAlchemy session: what it assigns becomes visible to the others only  *)
(* at its commit.  Handlers are coroutines: a step of a handler runs from  *)
(* one suspension (an awaited websocket send inside manager.broadcast) to  *)
(* the next, and other handlers interleave only at those suspensions.      *)
(***************************************************************************)
EXTENDS Integers, Sequences, FiniteSets, TLC

\* ----- bounds ------------------------------------------------------------
MaxExec == 2          \* TradeExecution rows that can be created
MaxOrders == 2        \* orders the broker accepts
NumTasks == 2         \* engine handlers in flight at the same time
MaxRequests == 3      \* requests (HTTP requests, listener deliveries) handled
MaxAutoRequests == 2  \* requests next to the synchronizer, without approval
MaxSessions == 2      \* UI sessions that attach to the hub
MaxBroadcasts == 3    \* broadcasts the hub is asked for
MaxSubscribers == 2   \* active NotificationSubscriber rows of a user
MaxStarts == 3        \* starts of the platform through the API
MaxBeats == 2         \* rounds of the heartbeat tasks
MaxLen == 3           \* phrases of a message text
MaxClock == 2         \* clock readings between two runs of the parser
MaxTPs == 7           \* take-profit levels of a fan-out (volume computation)

\* ----- encodings ---------------------------------------------------------
None == 0             \* Python None / SQL NULL of a numeric column
Tasks == 1..NumTasks
ExecIds == 1..MaxExec
BrokerConfigs == <<1, 2>>   \* the user's BrokerConfig rows, in query order
Prices == {1, 2, 3}

\* ExecutionState (execution_state_manager.py)
PENDING == "pending"
PENDING_APPROVAL == "pending_approval"
VALIDATED == "validated"
EXECUTING == "executing"
EXECUTED == "executed"
FAILED == "failed"
CANCELLED == "cancelled"
CLOSED == "closed"
NOROW == "none"       \* the row does not exist (yet)

VARIABLES
  parsed_data,      \* Signal.parsed_data
  prefs,            \* the user's UserPreferences row (exists = FALSE: no row)
  signal_status,    \* Signal.status
  db,               \* committed trade_executions rows, by id
  nextId,           \* number of TradeExecution ids handed out (flushed rows)
  delivered,        \* the listener has handled the signal's message
  task,             \* engine handlers: position and session-local data
  orders,           \* broker side: accepted orders, index = ticket
  approval_events,  \* signal_approval_required broadcasts, per execution id
  sync,             \* the synchronizer tick
  requests,         \* requests handled so far
  last,             \* what the last step did (history)
  calc,              \* a computation of the engine taken alone: input, result
  hub,               \* the notification hub: sessions, broadcasts in progress
  rec,               \* the recorder handling one delivered message
  coord,             \* the coordinator: what runs, what stop has done
  cls,              \* a message given to the classifier, and its record
  api,              \* one HTTP request to the routes: input, response
  term              \* the broker terminal of the process and who uses it

vars == <<parsed_data, prefs, signal_status, db, nextId, delivered, task,
          orders, approval_events, sync, requests, last, calc,
          hub,
          rec,
          coord,
          cls,
          api,
          term>>

\* the engine's and the synchronizer's variables
engine == <<parsed_data, prefs, signal_status, db, nextId, delivered, task,
            orders, approval_events, sync, requests, last>>

\* what the engine's request handlers and the synchronizer leave alone
others == <<calc, hub, rec, coord, cls, api, term>>

\* ----- rows --------------------------------------------------------------
NoRow ==
  [state |-> NOROW, broker |-> 0, side |-> "none", entry_price |-> None,
   stop_loss |-> None, take_profit |-> None, ticket_number |-> None,
   actual_entry_price |-> None, execution_error |-> "",
   close_price |-> None, profit_loss |-> None]

\* TradeExecution(...) as built in execute_signal
TradeExecution(b, ps, tp, st) ==
  [state |-> st, broker |-> b, side |-> ps.signal_type,
   entry_price |-> ps.entry_price, stop_loss |-> ps.stop_loss,
   take_profit |-> tp, ticket_number |-> None,
   actual_entry_price |-> None, execution_error |-> "",
   close_price |-> None, profit_loss |-> None]

\* symbol and side are nullable=False: the INSERT fails without them
CanInsert(ps) == ps.symbol /\ ps.signal_type # "none"

\* ----- the signals and preferences the model starts from -----------------
Sig(sym, side, conf, entry, sl, tps, range) ==
  [symbol |-> sym, signal_type |-> side, confidence_score |-> conf,
   entry_price |-> entry, stop_loss |-> sl,
   take_profit |-> IF tps = <<>> THEN None ELSE tps[1],
   take_profits |-> tps, entry_range |-> range]

\* confidence_score is kept in tenths: 5 is 0.5
ParsedSignals ==
  { Sig(TRUE,  "buy",  10, 2, 1, <<3>>,    <<1, 2>>),  \* valid buy, range
    Sig(TRUE,  "buy",  10, 2, 1, <<3, 1>>, <<>>),      \* two TPs
    Sig(TRUE,  "sell", 10, 2, 3, <<1>>,    <<2, 3>>),  \* valid sell, range
    Sig(TRUE,  "buy",  10, None, 1, <<>>,  <<>>),      \* no entry, no TP
    Sig(TRUE,  "buy",  4,  2, 1, <<3>>,    <<>>),      \* low confidence
    Sig(TRUE,  "buy",  10, 2, 3, <<1>>,    <<>>),      \* SL/TP on wrong side
    Sig(FALSE, "buy",  10, 2, 1, <<3>>,    <<>>),      \* no symbol
    Sig(TRUE,  "none", 10, 2, 1, <<3>>,    <<>>) }     \* no side

Pref(ex, manual, limit) ==
  [exists |-> ex, manual_approval |-> manual, use_limit_orders |-> limit,
   max_slippage |-> 1]

Preferences ==
  { Pref(TRUE, TRUE, TRUE), Pref(TRUE, FALSE, TRUE),
    Pref(TRUE, FALSE, FALSE), Pref(FALSE, FALSE, FALSE) }

\* SL/TP overrides a confirm request can carry (None: field omitted)
Overrides == {<<None, None>>, <<3, None>>}

\* prices at which the broker fills a market order
FillPrices == {2}

\* ----- pure functions of the engine --------------------------------------
\* _validate_signal without its confidence threshold
_validate_signal_any_confidence(ps) ==
  IF ~ps.symbol THEN FALSE
  ELSE IF ps.signal_type = "none" THEN FALSE
  ELSE IF ps.entry_price # None /\ ps.stop_loss # None /\ ps.take_profit # None
       THEN IF ps.signal_type = "buy"
            THEN ps.stop_loss < ps.entry_price /\ ps.entry_price < ps.take_profit
            ELSE IF ps.signal_type = "sell"
            THEN ps.take_profit < ps.entry_price /\ ps.entry_price < ps.stop_loss
            ELSE TRUE
       ELSE TRUE

\* SignalExecutor._validate_signal (confidence_score in tenths: 5 is 0.5)
_validate_signal(ps) ==
  IF ~ps.symbol THEN FALSE
  ELSE IF ps.signal_type = "none" THEN FALSE
  ELSE IF ps.confidence_score < 5 THEN FALSE
  ELSE IF ps.entry_price # None /\ ps.stop_loss # None /\ ps.take_profit # None
       THEN IF ps.signal_type = "buy"
            THEN ps.stop_loss < ps.entry_price /\ ps.entry_price < ps.take_profit
            ELSE IF ps.signal_type = "sell"
            THEN ps.take_profit < ps.entry_price /\ ps.entry_price < ps.stop_loss
            ELSE TRUE
       ELSE TRUE

\* the fan-out with the take_profits list ignored
TPListSingle(ps) ==
  IF ps.take_profit # None THEN <<ps.take_profit>>
  ELSE <<None>>

\* the take-profit list of the fan-out (execute_signal)
TPList(ps) ==
  IF ps.take_profits # <<>> THEN ps.take_profits
  ELSE IF ps.take_profit # None THEN <<ps.take_profit>>
  ELSE <<None>>

\* the manual-approval test with the preference ignored
ApprovalGateOff(execution_id, p) ==
  execution_id = None /\ p.exists /\ ~p.manual_approval

\* the manual-approval test of execute_signal (execution_id: 0 when not a resume)
ApprovalGate(execution_id, p) ==
  execution_id = None /\ p.exists /\ p.manual_approval

\* signal_data built by confirm_execution from the stored row
SignalData(row) ==
  [symbol |-> TRUE, signal_type |-> row.side, confidence_score |-> 10,
   entry_price |-> row.entry_price, stop_loss |-> row.stop_loss,
   take_profit |-> row.take_profit, take_profits |-> <<>>,
   entry_range |-> <<>>]

\* quotes get_current_price can return (NoQuote: it returned None)
NoQuote == [bid |-> 0, ask |-> 0, point |-> 0, digits |-> 0]
QuotePrices == {1, 2, 4}
Quotes ==
  {NoQuote} \cup
  { q \in [bid : QuotePrices, ask : QuotePrices, point : {1},
           digits : {2, 5}] : q.bid <= q.ask }

Abs(x) == IF x < 0 THEN -x ELSE x

\* use_limit with the slippage taken in points whatever the digits
UseLimitPoints(row, ps, p, q) ==
  IF q = NoQuote THEN FALSE
  ELSE LET current_price == IF row.side = "buy" THEN q.ask ELSE q.bid IN
       IF Len(ps.entry_range) = 2
       THEN IF row.side = "buy" THEN ~(current_price <= ps.entry_range[2])
                                ELSE ~(current_price >= ps.entry_range[1])
       ELSE IF p.exists /\ p.use_limit_orders /\ row.entry_price # None
       THEN Abs(current_price - row.entry_price) > p.max_slippage * q.point
       ELSE FALSE

\* use_limit as decided in _process_single_execution
UseLimit(row, ps, p, q) ==
  IF q = NoQuote THEN FALSE
  ELSE LET current_price == IF row.side = "buy" THEN q.ask ELSE q.bid IN
       IF Len(ps.entry_range) = 2
       THEN IF row.side = "buy" THEN ~(current_price <= ps.entry_range[2])
                                ELSE ~(current_price >= ps.entry_range[1])
       ELSE IF p.exists /\ p.use_limit_orders /\ row.entry_price # None
       THEN LET pips_to_price == IF q.digits \in {3, 5}
                                 THEN p.max_slippage * 10 * q.point
                                 ELSE p.max_slippage * q.point
            IN Abs(current_price - row.entry_price) > pips_to_price
       ELSE FALSE

\* execution_price as decided in _process_single_execution: the edge of the
\* range, the planned entry, or float(execution.entry_price or 0)
ExecutionPrice(row, ps, p, q) ==
  IF UseLimit(row, ps, p, q) /\ Len(ps.entry_range) = 2
  THEN IF row.side = "buy" THEN ps.entry_range[2] ELSE ps.entry_range[1]
  ELSE row.entry_price

\* ----- the signal status helper ------------------------------------------
Rows(d) == {e \in ExecIds : d[e].state # NOROW}
resolved_states == {CANCELLED, FAILED, EXECUTED, CLOSED}
AllResolved(d) ==
  Rows(d) # {} /\ \A e \in Rows(d) : d[e].state \in resolved_states

\* SignalExecutor._update_signal_status: the status it leaves behind
_update_signal_status(d, cur) ==
  IF AllResolved(d)
  THEN IF \A e \in Rows(d) : d[e].state = CANCELLED THEN "rejected"
       ELSE "processed"
  ELSE cur

\* str(e) of the exception handled by _process_single_execution (the texts
\* are not told apart)
ErrorText == "error"

\* ----- handlers: bookkeeping ----------------------------------------------
\* the record of a tick: the broker accounts it selected (sel), those where
\* a step of their own failed (faults), those whose executions it went
\* through (reached), the executions it set to CLOSED (closed)
NoTick == [sel |-> {}, faults |-> {}, reached |-> {}, closed |-> {}]

\* the synchronizer between two ticks (asyncio.sleep)
SyncSleep ==
  [pc |-> "sleep", groups |-> <<>>, items |-> <<>>, open |-> {},
   broker |-> 0, broken |-> FALSE, tick |-> NoTick]

NoSig == Sig(FALSE, "none", 0, None, None, <<>>, <<>>)

IdleTask ==
  [pc |-> "idle", kind |-> "none", brokers |-> <<>>, tps |-> <<>>, e |-> 0,
   ps |-> NoSig, row |-> NoRow, use_limit |-> FALSE, failing |-> FALSE,
   pending |-> <<>>, price |-> None, events |-> <<>>, attempts |-> <<>>,
   created |-> {}]

\* the last step: what it was (act), the kind of handler that took it, the
\* status assignments it made (edges: <<old, new>>), the executions it
\* created or worked on (rows), the parsed signal it validated or tried to
\* insert (ps, NoSig when none), the broker calls it made (calls) and, for
\* the step that prices an order, the quote it got and what it decided;
\* for a write of the synchronizer, the status the row had (was); for the
\* end of a tick, its record (tick)
NoLast ==
  [act |-> "init", kind |-> "none", edges |-> {}, rows |-> {},
   ps |-> NoSig, calls |-> 0, quote |-> NoQuote, use_limit |-> FALSE,
   price |-> None, was |-> NOROW, tick |-> NoTick]

\* a step that assigns no status, validates nothing and calls no broker
Step == [NoLast EXCEPT !.act = "step"]

Did(a, k, ed, rs, sig, c) ==
  [act |-> a, kind |-> k, edges |-> {x \in ed : x[1] # x[2]}, rows |-> rs,
   ps |-> sig, calls |-> c, quote |-> NoQuote, use_limit |-> FALSE,
   price |-> None, was |-> NOROW, tick |-> NoTick]

\* positions where a handler holds the event loop (no await that suspends
\* lies between them and the next step)
Internal == {"execute_signal", "next_tp"}
SyncInternal == {"group", "item"}
Running(t) ==
  /\ \A u \in Tasks \ {t} : task[u].pc \notin Internal
  /\ sync.pc \notin SyncInternal
Quiet ==
  /\ \A u \in Tasks : task[u].pc \notin Internal
  /\ sync.pc \notin SyncInternal
\* a new handler takes the first free slot (the slots are interchangeable)
FreeSlot(t) ==
  /\ task[t].pc = "idle"
  /\ \A u \in Tasks : u < t => task[u].pc # "idle"
TasksQuiet == \A u \in Tasks : task[u].pc \notin Internal

\* an auto loop that gives up its remaining take profits after a failure
AfterProcessBreak(tk) ==
  IF tk.kind = "confirm" THEN IdleTask
  ELSE [tk EXCEPT !.pc = "next_tp", !.e = 0, !.row = NoRow,
                  !.use_limit = FALSE, !.price = None,
                  !.tps = IF tk.failing THEN <<>> ELSE @,
                  !.failing = FALSE, !.events = <<>>, !.attempts = <<>>]

\* _process_single_execution has returned: a confirm answers its request,
\* the auto branch of execute_signal goes on with the next take profit
AfterProcess(tk) ==
  IF tk.kind = "confirm" THEN IdleTask
  ELSE [tk EXCEPT !.pc = "next_tp", !.e = 0, !.row = NoRow,
                  !.use_limit = FALSE, !.failing = FALSE, !.price = None,
                  !.events = <<>>, !.attempts = <<>>]

\* execute_signal has returned: the wrapper goes on with the next broker
AfterInvocation(tk) ==
  IF Len(tk.brokers) <= 1 THEN IdleTask
  ELSE [IdleTask EXCEPT !.pc = "execute_signal", !.kind = tk.kind,
                        !.brokers = Tail(tk.brokers), !.ps = tk.ps]

\* no computation is being looked at
NoUserPrefs == [exists |-> FALSE, null |-> TRUE, risk_per_trade |-> 0]
NoCalc == [pc |-> "none", user_prefs |-> NoUserPrefs, tps |-> 0, out |-> None]

\* the hub, the recorder, the coordinator and the classifier when they are
\* not looked at
NoHub == [pc |-> "none"]
NoRec == [pc |-> "none"]
NoCoord == [pc |-> "none"]
NoCls == [pc |-> "none"]
NoApi == [pc |-> "none"]
NoTerm == [pc |-> "none"]

\* the other components are not looked at
Apart ==
  /\ hub = NoHub
  /\ rec = NoRec
  /\ coord = NoCoord
  /\ cls = NoCls
  /\ api = NoApi
  /\ term = NoTerm

\* a stored signal without executions; nothing in flight
EngineIdle ==
  /\ signal_status = "pending"
  /\ db = [e \in ExecIds |-> NoRow]
  /\ nextId = 0
  /\ delivered = FALSE
  /\ task = [t \in Tasks |-> IdleTask]
  /\ orders = <<>>
  /\ approval_events = [e \in ExecIds |-> 0]
  /\ sync = SyncSleep
  /\ requests = 0
  /\ last = NoLast

NothingYet == EngineIdle /\ Apart

Init ==
  /\ parsed_data \in ParsedSignals
  /\ prefs \in Preferences
  /\ NothingYet
  /\ calc = NoCalc

\* ----- _process_single_execution -----------------------------------------
\* the except branch: FAILED, commit, _update_signal_status, then the
\* signal_update broadcast (when the signal got resolved) and the error one
Except(t, e, tk, d, err, ed, sig, c) ==
  LET d1 == [d EXCEPT ![e].state = FAILED, ![e].execution_error = err] IN
  /\ db' = d1
  /\ signal_status' = _update_signal_status(d1, signal_status)
  /\ task' = [task EXCEPT ![t] =
        [tk EXCEPT !.pc = IF AllResolved(d1) THEN "sigupd_bcast"
                          ELSE "error_bcast",
                   !.failing = TRUE]]
  /\ last' = Did("except", tk.kind, ed, {e}, sig, c)

\* from the entry of _process_single_execution to the "executing" broadcast.
\* old: the status the handler's object holds; d: the rows as committed by
\* the caller; ed: the status assignments the caller made in this step
Process(t, e, old, ps, tk, d, ed) ==
  /\ \/ /\ ~_validate_signal(ps)
        /\ db' = [d EXCEPT ![e].state = FAILED,
                           ![e].execution_error = "Signal validation failed"]
        /\ task' = [task EXCEPT ![t] = AfterProcess(tk)]
        /\ last' = Did("validation_failed", tk.kind, ed \cup {<<old, FAILED>>},
                       {e}, ps, 0)
        /\ UNCHANGED signal_status
     \/ /\ _validate_signal(ps)
        /\ \/ Except(t, e, tk, d, ErrorText,
                     ed \cup {<<old, VALIDATED>>, <<VALIDATED, FAILED>>}, ps, 0)
           \/ Except(t, e, tk, d,
                     ErrorText,
                     ed \cup {<<old, VALIDATED>>, <<VALIDATED, FAILED>>}, ps, 1)
           \/ \E q \in Quotes :
                /\ db' = d
                /\ task' = [task EXCEPT ![t] =
                      [tk EXCEPT !.pc = "exec_bcast",
                                 !.use_limit = UseLimit(tk.row, ps, prefs, q),
                                 !.price =
                                    ExecutionPrice(tk.row, ps, prefs, q),
                                 !.events = <<"executing">>]]
                /\ last' = [Did("executing", tk.kind,
                                ed \cup {<<old, VALIDATED>>,
                                         <<VALIDATED, EXECUTING>>},
                                {e}, ps, 2)
                              EXCEPT !.quote = q,
                                     !.use_limit =
                                        UseLimit(tk.row, ps, prefs, q),
                                     !.price =
                                        ExecutionPrice(tk.row, ps, prefs, q)]
                /\ UNCHANGED signal_status
  /\ UNCHANGED <<parsed_data, prefs, delivered, orders, approval_events, sync>>

\* what execute_market_order / execute_limit_order return on success
\* the deals of a position: none yet, or the price and profit of a deal
NoDeal == [price |-> None, profit |-> None]
Deals == {[price |-> 1, profit |-> -1], [price |-> 3, profit |-> 2]}

MarketResult(k, price) == [ticket |-> k, entry_price |-> price]
LimitResult(k) == [ticket |-> k, entry_price |-> None]

\* the order succeeded: EXECUTED with ticket and actual entry, commit, then
\* the "executed" broadcast
Success(t, e, order_result, kind, price) ==
  /\ orders' = Append(orders, [e |-> e, type |-> kind, price |-> price,
                               status |-> IF kind = "market" THEN "open"
                                          ELSE "pending",
                               deal |-> NoDeal])
  /\ db' = [db EXCEPT ![e].state = EXECUTED,
                      ![e].ticket_number = order_result.ticket,
                      ![e].actual_entry_price = order_result.entry_price]
  /\ task' = [task EXCEPT ![t].pc = "executed_bcast",
                          ![t].events = Append(@, "executed"),
                          ![t].attempts = Append(@, <<kind, price>>)]
  /\ last' = Did("executed", task[t].kind, {<<EXECUTING, EXECUTED>>}, {e},
                 NoSig, 1)
  /\ UNCHANGED signal_status

\* the market-to-limit fallback taken whether a planned entry exists or not
FallBackAlways(row) == TRUE

\* the test of the market-to-limit fallback: execution.entry_price is set
FallBack(row) == row.entry_price # None

\* the order types of an attempt (tk.attempts: <<type, price>>, in order)
Tried(tk, kind, price) == [tk EXCEPT !.attempts = Append(@, <<kind, price>>)]

\* resumed after the "executing" broadcast: the order is sent
place_order(t) ==
  LET tk == task[t] IN
  /\ UNCHANGED <<requests, others>>
  /\ tk.pc = "exec_bcast"
  /\ Running(t)
  /\ \/ /\ tk.use_limit
        /\ Len(orders) < MaxOrders
        /\ Success(t, tk.e, LimitResult(Len(orders) + 1), "limit", tk.price)
     \/ /\ tk.use_limit
        /\ Except(t, tk.e, Tried(tk, "limit", tk.price), db, ErrorText,
                  {<<EXECUTING, FAILED>>}, NoSig, 1)
        /\ UNCHANGED orders
     \/ /\ ~tk.use_limit
        /\ Len(orders) < MaxOrders
        /\ \E price \in FillPrices :
             Success(t, tk.e, MarketResult(Len(orders) + 1, price), "market",
                     None)
     \/ /\ ~tk.use_limit
        /\ FallBack(tk.row)
        /\ task' = [task EXCEPT ![t] =
              [Tried(tk, "market", None) EXCEPT
                 !.pc = "fallback_bcast",
                 !.events = Append(@, "falling_back")]]
        /\ last' = Did("falling_back", tk.kind, {}, {tk.e}, NoSig, 1)
        /\ UNCHANGED <<db, signal_status, orders>>
     \/ /\ ~tk.use_limit
        /\ ~FallBack(tk.row)
        /\ Except(t, tk.e, Tried(tk, "market", None), db, ErrorText,
                  {<<EXECUTING, FAILED>>}, NoSig, 1)
        /\ UNCHANGED orders
  /\ UNCHANGED <<parsed_data, prefs, nextId, delivered, approval_events, sync>>

\* resumed after the "falling_back" broadcast: the limit order at the entry
fallback_limit(t) ==
  LET tk == task[t] IN
  /\ UNCHANGED <<requests, others>>
  /\ tk.pc = "fallback_bcast"
  /\ Running(t)
  /\ \/ /\ Len(orders) < MaxOrders
        /\ Success(t, tk.e, LimitResult(Len(orders) + 1), "limit",
                   tk.row.entry_price)
     \/ /\ Except(t, tk.e, Tried(tk, "limit", tk.row.entry_price), db,
                  ErrorText, {<<EXECUTING, FAILED>>}, NoSig, 1)
        /\ UNCHANGED orders
  /\ UNCHANGED <<parsed_data, prefs, nextId, delivered, approval_events, sync>>

\* resumed after the "executed" broadcast: _update_signal_status
after_executed(t) ==
  LET tk == task[t] IN
  /\ UNCHANGED <<requests, others>>
  /\ tk.pc = "executed_bcast"
  /\ Running(t)
  /\ signal_status' = _update_signal_status(db, signal_status)
  /\ task' = [task EXCEPT ![t] =
        IF AllResolved(db) THEN [tk EXCEPT !.pc = "sigupd_bcast"]
        ELSE AfterProcess(tk)]
  /\ last' = Step
  /\ UNCHANGED <<parsed_data, prefs, db, nextId, delivered, orders,
                 approval_events, sync>>

\* resumed after the signal_update broadcast
after_signal_update(t) ==
  LET tk == task[t] IN
  /\ UNCHANGED <<requests, others>>
  /\ tk.pc = "sigupd_bcast"
  /\ Running(t)
  /\ task' = [task EXCEPT ![t] =
        IF tk.failing THEN [tk EXCEPT !.pc = "error_bcast"]
        ELSE AfterProcess(tk)]
  /\ last' = Step
  /\ UNCHANGED <<parsed_data, prefs, signal_status, db, nextId, delivered,
                 orders, approval_events, sync>>

\* resumed after the error broadcast: _process_single_execution returns
after_error(t) ==
  LET tk == task[t] IN
  /\ UNCHANGED <<requests, others>>
  /\ tk.pc = "error_bcast"
  /\ Running(t)
  /\ task' = [task EXCEPT ![t] = AfterProcess(tk)]
  /\ last' = Step
  /\ UNCHANGED <<parsed_data, prefs, signal_status, db, nextId, delivered,
                 orders, approval_events, sync>>

\* rows the handlers in flight will still create (the model admits a new
\* invocation only while ids are left for all of them)
Remaining(tk) ==
  IF tk.kind \in {"post", "listener"}
  THEN Len(TPList(tk.ps)) * (Len(tk.brokers) - 1)
       + (IF tk.pc = "execute_signal" THEN Len(TPList(tk.ps)) ELSE Len(tk.tps))
  ELSE 0

RECURSIVE Reserved(_)
Reserved(T) ==
  IF T = {} THEN 0
  ELSE LET t == CHOOSE x \in T : TRUE
       IN Remaining(task[t]) + Reserved(T \ {t})

\* ----- execute_signal ------------------------------------------------------
\* POST /executions (routes.execute_signal): one engine invocation for
\* broker configuration b with the signal's stored parsed_data
route_execute_signal(t, b) ==
  /\ FreeSlot(t)
  /\ Quiet
  /\ requests < MaxRequests
  /\ requests' = requests + 1
  /\ UNCHANGED others
  /\ nextId + Reserved(Tasks) + Len(TPList(parsed_data)) <= MaxExec
  /\ task' = [task EXCEPT ![t] =
        [IdleTask EXCEPT !.pc = "execute_signal", !.kind = "post",
                         !.brokers = <<b>>, !.ps = parsed_data]]
  /\ last' = Step
  /\ UNCHANGED <<parsed_data, prefs, signal_status, db, nextId, delivered,
                 orders, approval_events, sync>>

\* execute_signal_wrapper (main.py): the listener hands over an actionable
\* signal; one engine invocation per broker configuration of the user
execute_signal_wrapper(t) ==
  /\ FreeSlot(t)
  /\ Quiet
  /\ requests < MaxRequests
  /\ requests' = requests + 1
  /\ UNCHANGED others
  /\ ~delivered
  /\ parsed_data.symbol
  /\ nextId + Reserved(Tasks)
        + Len(TPList(parsed_data)) * Len(BrokerConfigs) <= MaxExec
  /\ delivered' = TRUE
  /\ task' = [task EXCEPT ![t] =
        [IdleTask EXCEPT !.pc = "execute_signal", !.kind = "listener",
                         !.brokers = BrokerConfigs, !.ps = parsed_data]]
  /\ last' = Step
  /\ UNCHANGED <<parsed_data, prefs, signal_status, db, nextId, orders,
                 approval_events, sync>>

\* execute_signal without execution_id, up to its first suspension: the
\* approval branch validates, adds and flushes the first PENDING_APPROVAL row
\* and broadcasts signal_approval_required; the auto branch enters its loop
execute_signal(t) ==
  LET tk == task[t]
      tps == TPList(tk.ps)
      id == nextId + 1
  IN
  /\ UNCHANGED <<requests, others>>
  /\ tk.pc = "execute_signal"
  /\ Running(t)
  /\ IF ApprovalGate(None, prefs)
     THEN IF ~_validate_signal(tk.ps)
          THEN /\ task' = [task EXCEPT ![t] = AfterInvocation(tk)]
               /\ last' = Did("approval_invalid", tk.kind, {}, {}, tk.ps, 0)
               /\ UNCHANGED <<nextId, approval_events>>
          ELSE /\ nextId' = id
               /\ approval_events' = [approval_events EXCEPT ![id] = @ + 1]
               /\ task' = [task EXCEPT ![t] =
                     [tk EXCEPT !.pc = "approval_bcast", !.tps = Tail(tps),
                                !.pending = <<<<id, TradeExecution(
                                     Head(tk.brokers), tk.ps, Head(tps),
                                     PENDING_APPROVAL)>>>>]]
               /\ last' = Did("approval_created", tk.kind,
                              {<<NOROW, PENDING_APPROVAL>>}, {id}, tk.ps, 0)
     ELSE /\ task' = [task EXCEPT ![t] =
                [tk EXCEPT !.pc = "next_tp", !.tps = tps]]
          /\ last' = Step
          /\ UNCHANGED <<nextId, approval_events>>
  /\ UNCHANGED <<parsed_data, prefs, signal_status, db, delivered, orders,
                 sync>>

\* resumed after a signal_approval_required broadcast: the next row of the
\* loop, or the commit of all created rows and the return
approval_resume(t) ==
  LET tk == task[t]
      id == nextId + 1
  IN
  /\ UNCHANGED <<requests, others>>
  /\ tk.pc = "approval_bcast"
  /\ Running(t)
  /\ IF tk.tps # <<>>
     THEN /\ nextId' = id
          /\ approval_events' = [approval_events EXCEPT ![id] = @ + 1]
          /\ task' = [task EXCEPT ![t] =
                [tk EXCEPT !.tps = Tail(tk.tps),
                           !.pending = Append(tk.pending,
                              <<id, TradeExecution(Head(tk.brokers), tk.ps,
                                       Head(tk.tps), PENDING_APPROVAL)>>)]]
          /\ last' = Did("approval_created", tk.kind,
                         {<<NOROW, PENDING_APPROVAL>>}, {id}, NoSig, 0)
          /\ UNCHANGED db
     ELSE /\ db' = [e \in ExecIds |->
                      IF \E i \in 1..Len(tk.pending) : tk.pending[i][1] = e
                      THEN LET i == CHOOSE j \in 1..Len(tk.pending) :
                                       tk.pending[j][1] = e
                           IN tk.pending[i][2]
                      ELSE db[e]]
          /\ task' = [task EXCEPT ![t] = AfterInvocation(tk)]
          /\ last' = Did("approval_commit", tk.kind, {},
                         {tk.pending[i][1] : i \in 1..Len(tk.pending)},
                         NoSig, 0)
          /\ UNCHANGED <<nextId, approval_events>>
  /\ UNCHANGED <<parsed_data, prefs, signal_status, delivered, orders, sync>>

\* one round of the auto loop of execute_signal: the row is added and
\* committed as PENDING and handed to _process_single_execution
next_tp(t) ==
  LET tk == task[t]
      id == nextId + 1
  IN
  /\ UNCHANGED <<requests, others>>
  /\ tk.pc = "next_tp"
  /\ Running(t)
  /\ IF tk.tps = <<>>
     THEN /\ task' = [task EXCEPT ![t] = AfterInvocation(tk)]
          /\ last' = Did("auto_return", tk.kind, {}, tk.created, NoSig, 0)
          /\ UNCHANGED <<parsed_data, prefs, signal_status, db, nextId,
                         delivered, orders, approval_events, sync>>
     ELSE IF ~CanInsert(tk.ps)
     THEN \* the commit raises; the outer except of execute_signal returns
          /\ task' = [task EXCEPT ![t] = AfterInvocation(tk)]
          /\ last' = Did("insert_failed", tk.kind, {}, {}, tk.ps, 0)
          /\ UNCHANGED <<parsed_data, prefs, signal_status, db, nextId,
                         delivered, orders, approval_events, sync>>
     ELSE LET row == TradeExecution(Head(tk.brokers), tk.ps, Head(tk.tps),
                                    PENDING)
          IN /\ nextId' = id
             /\ Process(t, id, PENDING, tk.ps,
                        [tk EXCEPT !.tps = Tail(tk.tps), !.e = id,
                                   !.row = row, !.created = @ \cup {id}],
                        [db EXCEPT ![id] = row], {<<NOROW, PENDING>>})

\* POST /executions/{id}/confirm: the status test, the SL/TP overrides and
\* their commit, then execute_signal with execution_id (the resume branch)
\* an override that replaces the stored value even when it is omitted
OverrideGiven(stored, given) == given

\* if request.stop_loss is not None: execution.stop_loss = request.stop_loss
Override(stored, given) == IF given # None THEN given ELSE stored

confirm_execution(t, e, sl, tp) ==
  LET row == [db[e] EXCEPT !.stop_loss = Override(@, sl),
                           !.take_profit = Override(@, tp)]
  IN
  /\ FreeSlot(t)
  /\ Quiet
  /\ requests < MaxRequests
  /\ requests' = requests + 1
  /\ UNCHANGED others
  /\ db[e].state \in {PENDING_APPROVAL, FAILED}
  /\ ~ApprovalGate(e, prefs)
  /\ Process(t, e, db[e].state, SignalData(row),
             [IdleTask EXCEPT !.kind = "confirm", !.e = e, !.row = row,
                              !.ps = SignalData(row)],
             [db EXCEPT ![e] = row], {})
  /\ UNCHANGED nextId

\* ----- cancel and close ---------------------------------------------------
\* POST /executions/{id}/cancel: reject_execution (no suspension before its
\* commits; the signal_update broadcast is its last statement)
reject_execution(e) ==
  LET d1 == [db EXCEPT ![e].state = CANCELLED] IN
  /\ Quiet
  /\ requests < MaxRequests
  /\ requests' = requests + 1
  /\ UNCHANGED others
  /\ db[e].state = PENDING_APPROVAL
  /\ db' = d1
  /\ signal_status' = _update_signal_status(d1, signal_status)
  /\ last' = Did("cancel", "cancel", {<<PENDING_APPROVAL, CANCELLED>>}, {e},
                 NoSig, 0)
  /\ UNCHANGED <<parsed_data, prefs, nextId, delivered, task, orders,
                 approval_events, sync>>

\* POST /executions/{id}/close: close_position; the broker closes the
\* position only if the ticket is an open position, and the result carries
\* the price and the profit of the closing deal
close_position(e) ==
  LET k == db[e].ticket_number IN
  \E close_result \in Deals :
  /\ Quiet
  /\ requests < MaxRequests
  /\ requests' = requests + 1
  /\ UNCHANGED others
  /\ db[e].state # NOROW
  /\ k # None
  /\ orders[k].status = "open"
  /\ orders' = [orders EXCEPT ![k].status = "closed",
                               ![k].deal = close_result]
  /\ db' = [db EXCEPT ![e].state = CLOSED,
                      ![e].close_price = close_result.price,
                      ![e].profit_loss = close_result.profit]
  /\ last' = Did("close", "close", {<<db[e].state, CLOSED>>}, {e}, NoSig, 2)
  /\ UNCHANGED <<parsed_data, prefs, signal_status, nextId, delivered, task,
                 approval_events, sync>>

\* ----- the broker's side --------------------------------------------------
\* a pending limit order is filled and becomes an open position
LimitFilled(k) ==
  /\ UNCHANGED <<requests, others>>
  /\ k \in 1..Len(orders)
  /\ orders[k].status = "pending"
  /\ orders' = [orders EXCEPT ![k].status = "open"]
  /\ last' = Step
  /\ UNCHANGED <<parsed_data, prefs, signal_status, db, nextId, delivered,
                 task, approval_events, sync>>

\* SL or TP is hit: the broker closes the position with a closing deal
PositionClosed(k) ==
  \E d \in Deals :
  /\ UNCHANGED <<requests, others>>
  /\ k \in 1..Len(orders)
  /\ orders[k].status = "open"
  /\ orders' = [orders EXCEPT ![k].status = "closed", ![k].deal = d]
  /\ last' = Step
  /\ UNCHANGED <<parsed_data, prefs, signal_status, db, nextId, delivered,
                 task, approval_events, sync>>

\* ----- the position synchronizer ------------------------------------------
\* ids in increasing order
RECURSIVE SortedSeq(_)
SortedSeq(S) ==
  IF S = {} THEN <<>>
  ELSE LET m == CHOOSE x \in S : \A y \in S : x <= y
       IN <<m>> \o SortedSeq(S \ {m})

\* by_broker of sync_all_active_positions: one group per broker
\* configuration, in the order of the first execution of each
RECURSIVE GroupByBroker(_, _)
GroupByBroker(ids, d) ==
  IF ids = {} THEN <<>>
  ELSE LET first == CHOOSE x \in ids : \A y \in ids : x <= y
           grp == {x \in ids : d[x].broker = d[first].broker}
       IN <<SortedSeq(grp)>> \o GroupByBroker(ids \ grp, d)

\* sync_all_active_positions: the tick opens a session and selects the
\* EXECUTED rows
sync_all_active_positions ==
  LET active_executions == {e \in ExecIds : db[e].state = EXECUTED} IN
  /\ UNCHANGED <<requests, others>>
  /\ sync.pc = "sleep"
  /\ Quiet
  /\ active_executions # {}
  /\ sync' = [SyncSleep EXCEPT
                !.pc = "group",
                !.groups = GroupByBroker(active_executions, db),
                !.tick.sel = {db[e].broker : e \in active_executions}]
  /\ last' = Did("sync_select", "sync", {}, {}, NoSig, 0)
  /\ UNCHANGED <<parsed_data, prefs, signal_status, db, nextId, delivered,
                 task, orders, approval_events>>

\* the profit get_positions reports for an open position
Floating == {1}

\* _sync_broker_positions up to its loop.  With a session whose commit
\* failed earlier in the tick the first query raises (the except clause of
\* the function logs it); credentials and connect can fail (return);
\* get_positions returns the open positions, or its failure value, the
\* empty list.  With no group left the tick is over (db.close()).
_sync_broker_positions ==
  /\ UNCHANGED <<requests, others>>
  /\ sync.pc = "group"
  /\ TasksQuiet
  /\ IF sync.groups = <<>>
     THEN /\ sync' = SyncSleep
          /\ last' = [Did("sync_end", "sync", {}, {}, NoSig, 0)
                        EXCEPT !.tick = sync.tick]
     ELSE LET items == Head(sync.groups)
              broker_id == db[Head(items)].broker
              tickets == {k \in 1..Len(orders) : orders[k].status = "open"}
          IN /\ last' = Did("sync_group", "sync", {}, {}, NoSig, 1)
             /\ IF sync.broken
                THEN sync' = [sync EXCEPT !.groups = Tail(@)]
                ELSE \/ sync' = [sync EXCEPT !.groups = Tail(@),
                                             !.tick.faults = @ \cup {broker_id}]
                     \/ sync' = [sync EXCEPT !.pc = "item",
                                   !.groups = Tail(@), !.items = items,
                                   !.open = tickets, !.broker = broker_id,
                                   !.tick.reached = @ \cup {broker_id}]
                     \/ sync' = [sync EXCEPT !.pc = "item",
                                   !.groups = Tail(@), !.items = items,
                                   !.open = {}, !.broker = broker_id,
                                   !.tick.faults = @ \cup {broker_id},
                                   !.tick.reached = @ \cup {broker_id}]
  /\ UNCHANGED <<parsed_data, prefs, signal_status, db, nextId, delivered,
                 task, orders, approval_events>>

\* MT5Executor.get_history_deals when the call succeeds: the closing deal
\* of the position, else the last of its deals (for a position that is
\* still open, the deal that opened it, whose profit is 0); NoDeal for a
\* ticket without deals
get_history_deals(k) ==
  IF orders[k].status = "closed" THEN orders[k].deal
  ELSE IF orders[k].status = "open"
       THEN [price |-> orders[k].price, profit |-> 0]
       ELSE NoDeal

\* the test "if deal" of _sync_broker_positions
HasDeal(k) == get_history_deals(k) # NoDeal

\* the except clause of _sync_broker_positions after a failed db.commit():
\* the rest of the group is dropped and the session is left as it is
CommitFailed ==
  [sync EXCEPT !.pc = "group", !.items = <<>>, !.open = {}, !.broker = 0,
               !.broken = TRUE, !.tick.faults = @ \cup {sync.broker}]

\* one execution of the loop of _sync_broker_positions
sync_item ==
  /\ UNCHANGED <<requests, others>>
  /\ sync.pc = "item"
  /\ TasksQuiet
  /\ IF sync.items = <<>>
     THEN /\ sync' = [sync EXCEPT !.pc = "group", !.open = {}, !.broker = 0]
          /\ last' = Did("sync_next", "sync", {}, {}, NoSig, 0)
          /\ UNCHANGED db
     ELSE LET ex == Head(sync.items)
              k == db[ex].ticket_number
          IN IF k = None
             THEN /\ sync' = [sync EXCEPT !.items = Tail(@)]
                  /\ last' = Did("sync_skip", "sync", {}, {ex}, NoSig, 0)
                  /\ UNCHANGED db
             ELSE IF k \in sync.open
             THEN \* still open: profit_loss, commit, position_update
                  \/ \E profit \in Floating :
                       /\ db' = [db EXCEPT ![ex].profit_loss = profit]
                       /\ sync' = [sync EXCEPT !.items = Tail(@),
                                               !.pc = "bcast"]
                       /\ last' = [Did("sync_update", "sync", {}, {ex},
                                       NoSig, 0) EXCEPT !.was = db[ex].state]
                  \/ /\ sync' = CommitFailed
                     /\ last' = Did("sync_error", "sync", {}, {ex}, NoSig, 0)
                     /\ UNCHANGED db
             ELSE LET deal == get_history_deals(k) IN
                  \/ /\ HasDeal(k)
                     /\ db' = [db EXCEPT ![ex].state = CLOSED,
                                         ![ex].profit_loss = deal.profit,
                                         ![ex].close_price = deal.price]
                     /\ sync' = [sync EXCEPT !.items = Tail(@),
                                             !.pc = "bcast",
                                             !.tick.closed = @ \cup {ex}]
                     /\ last' = [Did("sync_closed", "sync",
                                     {<<db[ex].state, CLOSED>>}, {ex}, NoSig,
                                     1) EXCEPT !.was = db[ex].state]
                  \/ /\ HasDeal(k)
                     /\ sync' = CommitFailed
                     /\ last' = Did("sync_error", "sync", {}, {ex}, NoSig, 1)
                     /\ UNCHANGED db
                  \/ /\ sync' = [sync EXCEPT !.items = Tail(@)]
                     /\ last' = Did("sync_skip", "sync", {}, {ex}, NoSig, 1)
                     /\ UNCHANGED db
  /\ UNCHANGED <<parsed_data, prefs, signal_status, nextId, delivered, task,
                 orders, approval_events>>

\* resumed after a position_update / position_closed broadcast
sync_resume ==
  /\ UNCHANGED <<requests, others>>
  /\ sync.pc = "bcast"
  /\ Quiet
  /\ sync' = [sync EXCEPT !.pc = "item"]
  /\ last' = Step
  /\ UNCHANGED <<parsed_data, prefs, signal_status, db, nextId, delivered,
                 task, orders, approval_events>>

\* ----- the system ---------------------------------------------------------
\* Next composes the request handlers of the engine.  The broker-side steps
\* and the synchronizer tick above place no order and do not write
\* Signal.status; they are left out of it and join it in SyncNext.
Next ==
  \/ \E t \in Tasks : \E b \in 1..Len(BrokerConfigs) :
       route_execute_signal(t, BrokerConfigs[b])
  \/ \E t \in Tasks : execute_signal_wrapper(t)
  \/ \E t \in Tasks : execute_signal(t)
  \/ \E t \in Tasks : approval_resume(t)
  \/ \E t \in Tasks : next_tp(t)
  \/ \E t \in Tasks : \E e \in ExecIds : \E o \in Overrides :
       confirm_execution(t, e, o[1], o[2])
  \/ \E t \in Tasks : place_order(t)
  \/ \E t \in Tasks : fallback_limit(t)
  \/ \E t \in Tasks : after_executed(t)
  \/ \E t \in Tasks : after_signal_update(t)
  \/ \E t \in Tasks : after_error(t)
  \/ \E e \in ExecIds : reject_execution(e)
  \/ \E e \in ExecIds : close_position(e)

Spec == Init /\ [][Next]_vars

\* the engine together with the broker's side and the synchronizer, looked
\* at for a signal with two take profits under manual approval and for a
\* signal without take profit executed at once
SyncInputs ==
  { <<Sig(TRUE, "buy", 10, 2, 1, <<3, 1>>, <<>>), Pref(TRUE, TRUE, TRUE)>>,
    <<Sig(TRUE, "buy", 10, None, 1, <<>>, <<>>), Pref(TRUE, FALSE, FALSE)>> }

\* requests looked at next to the synchronizer
SyncRequests == IF prefs.manual_approval THEN MaxRequests ELSE MaxAutoRequests

SyncNext ==
  \/ Next /\ requests' <= SyncRequests
  \/ \E k \in 1..MaxOrders : LimitFilled(k)
  \/ \E k \in 1..MaxOrders : PositionClosed(k)
  \/ sync_all_active_positions
  \/ _sync_broker_positions
  \/ sync_item
  \/ sync_resume

SyncInit ==
  /\ \E i \in SyncInputs : parsed_data = i[1] /\ prefs = i[2]
  /\ NothingYet
  /\ calc = NoCalc

SyncSpec == SyncInit /\ [][SyncNext]_vars

TypeOK ==
  /\ signal_status \in {"pending", "processed", "rejected"}
  /\ nextId \in 0..MaxExec
  /\ Len(orders) <= MaxOrders
  /\ \A e \in ExecIds : e > nextId => db[e] = NoRow

\* ----- a failure after the EXECUTED commit --------------------------------------
\* The "executed" broadcast and _update_signal_status stand inside the try
\* block of _process_single_execution.  When one of them raises (the store
\* does not answer a query of _update_signal_status), the except branch sets
\* the Execution to FAILED and commits; that commit succeeds, or raises in
\* its turn and the exception leaves through execute_signal.
after_executed_raises(t) ==
  LET tk == task[t] IN
  /\ UNCHANGED <<requests, others>>
  /\ tk.pc = "executed_bcast"
  /\ Running(t)
  /\ \/ Except(t, tk.e, tk, db, ErrorText, {<<EXECUTED, FAILED>>}, NoSig, 0)
     \/ /\ task' = [task EXCEPT ![t] = AfterInvocation(tk)]
        /\ last' = Did("raised", tk.kind, {}, {tk.e}, NoSig, 0)
        /\ UNCHANGED <<db, signal_status>>
  /\ UNCHANGED <<parsed_data, prefs, nextId, delivered, orders,
                 approval_events, sync>>

FaultNext ==
  \/ Next
  \/ \E t \in Tasks : after_executed_raises(t)

FaultInit == SyncInit

FaultSpec == FaultInit /\ [][FaultNext]_vars

\* ----- the volume of a position, taken alone ------------------------------
\* Volumes are counted in hundredths of a lot (100 is 1.0, 1 is 0.01).
\* user_prefs: the row is missing (exists = FALSE), its risk_per_trade is
\* NULL (null = TRUE) or holds a number
RiskValues == {0, 1, 25, 50, 100, 200}
UserPrefsRows ==
  {NoUserPrefs, [exists |-> TRUE, null |-> TRUE, risk_per_trade |-> 0]} \cup
  { [exists |-> TRUE, null |-> FALSE, risk_per_trade |-> r] : r \in RiskValues }

\* round(num / den, 2) in hundredths: to the nearest, a tie to the even
\* neighbour (the ties of RiskValues / 1..MaxTPs are exact binary fractions
\* or fall below the 0.01 clamp)
Round2(num, den) ==
  LET q == num \div den
      r == num % den
  IN IF 2 * r > den \/ (2 * r = den /\ q % 2 = 1) THEN q + 1 ELSE q

\* total_volume and pos_volume of execute_signal
PosVolume(user_prefs, n) ==
  LET total_volume ==
        IF user_prefs.exists /\ ~user_prefs.null /\ user_prefs.risk_per_trade # 0
        THEN user_prefs.risk_per_trade
        ELSE 100
      pos_volume == Round2(total_volume, n)
  IN IF pos_volume < 1 THEN 1 ELSE pos_volume

VolumeInit ==
  /\ parsed_data = NoSig
  /\ prefs = Pref(FALSE, FALSE, FALSE)
  /\ NothingYet
  /\ calc \in { [pc |-> "ready", user_prefs |-> up, tps |-> n, out |-> None] :
                  up \in UserPrefsRows, n \in 1..MaxTPs }

\* execute_signal computes pos_volume for a fan-out of calc.tps take profits
compute_volume ==
  /\ calc.pc = "ready"
  /\ calc' = [calc EXCEPT !.pc = "volume",
                          !.out = PosVolume(calc.user_prefs, calc.tps)]
  /\ UNCHANGED <<engine, hub, rec, coord, cls, api, term>>

VolumeNext == compute_volume

VolumeSpec == VolumeInit /\ [][VolumeNext]_vars

\* ----- the notification hub -------------------------------------------------
\* ConnectionManager of api/websockets.py.  An event is told by its type and
\* by the user whose messages, signals or executions it carries (owner, 0:
\* none).
Users == {1, 2}
Sessions == 1..MaxSessions
Event(type, owner) == [type |-> type, owner |-> owner]
NoEvent == Event("none", 0)

\* no broadcast in progress.  Of a broadcast to a user the hub's record
\* also keeps the sessions that got the message (got, in order) and those
\* of the user's list at entry that have not detached since and whose send
\* has not failed (stayed)
NoBroadcast == [on |-> FALSE, to |-> 0, ev |-> NoEvent, k |-> 0, n |-> 0,
                i |-> 0, got |-> <<>>, stayed |-> {}]
\* the last step of the hub: a send (act), to which session (s), of which
\* event (ev), and whether a send to that session had failed before (again)
NoSend == [act |-> "none", s |-> 0, ev |-> NoEvent, again |-> FALSE]

\* the hub after construction: active_connections = {} (conns: the list of
\* a user, keys: the keys of the dict in insertion order), no session has
\* attached (owner), none is closed on the client's side (broken), no send
\* has failed (failed), no log line waits to be broadcast (logs)
HubStart ==
  [pc |-> "hub", conns |-> [u \in Users |-> <<>>], keys |-> <<>>,
   owner |-> [x \in Sessions |-> 0], broken |-> {}, failed |-> {},
   bc |-> NoBroadcast, started |-> 0, logs |-> 0, last |-> NoSend]

\* a sequence without its elements equal to x
RECURSIVE Without(_, _)
Without(q, x) ==
  IF q = <<>> THEN <<>>
  ELSE IF Head(q) = x THEN Without(Tail(q), x)
       ELSE <<Head(q)>> \o Without(Tail(q), x)

InSeq(q, x) == \E j \in 1..Len(q) : q[j] = x

\* ConnectionManager.connect, called by websocket_endpoint for the user of
\* the token
connect(x, user_id) ==
  /\ hub.owner[x] = 0
  /\ hub' = [hub EXCEPT
               !.owner[x] = user_id,
               !.conns[user_id] = Append(@, x),
               !.keys = IF InSeq(@, user_id) THEN @ ELSE Append(@, user_id),
               !.last = NoSend]
  /\ UNCHANGED <<engine, calc, rec, coord, cls, api, term>>

\* the client goes away: from now on send_text to the session raises
client_closes(x) ==
  /\ hub.owner[x] # 0
  /\ x \notin hub.broken
  /\ hub' = [hub EXCEPT !.broken = @ \cup {x}, !.last = NoSend]
  /\ UNCHANGED <<engine, calc, rec, coord, cls, api, term>>

\* ConnectionManager.disconnect, called by websocket_endpoint when its
\* receive_text raises
disconnect(x) ==
  LET user_id == hub.owner[x]
      rest == Without(hub.conns[user_id], x)
  IN /\ x \in hub.broken
     /\ InSeq(hub.conns[user_id], x)
     /\ hub' = [hub EXCEPT
                  !.conns[user_id] = rest,
                  !.keys = IF rest = <<>> THEN Without(@, user_id) ELSE @,
                  !.bc.stayed = @ \ {x},
                  !.last = NoSend]
     /\ UNCHANGED <<engine, calc, rec, coord, cls, api, term>>

\* the hub when a broadcast is entered: broadcast(message, user_id) for an
\* event of a user, broadcast(message) for all (to = 0)
Entered(to, ev) ==
  [hub EXCEPT !.bc = [on |-> TRUE, to |-> to, ev |-> ev, k |-> 1,
                      n |-> Len(hub.keys), i |-> 1, got |-> <<>>,
                      stayed |-> IF to = 0 THEN {}
                                 ELSE {hub.conns[to][j] :
                                         j \in 1..Len(hub.conns[to])}],
              !.started = @ + 1, !.last = NoSend]

\* the engine, the recorder and the synchronizer broadcast an event of a
\* user to that user
broadcast_user(user_id) ==
  /\ ~hub.bc.on
  /\ hub.started < MaxBroadcasts
  /\ hub' = Entered(user_id, Event("event", user_id))
  /\ UNCHANGED <<engine, calc, rec, coord, cls, api, term>>

\* heartbeat_ping of the API's lifespan
heartbeat_ping ==
  /\ ~hub.bc.on
  /\ hub.started < MaxBroadcasts
  /\ hub' = Entered(0, Event("ping", 0))
  /\ UNCHANGED <<engine, calc, rec, coord, cls, api, term>>

\* WebSocketLogHandler.emit for a record logged at INFO or above by a
\* handler working for a user: the line carries that user's message text,
\* signal or execution ids
log_line(user_id) ==
  /\ ~hub.bc.on
  /\ hub.started < MaxBroadcasts
  /\ hub' = Entered(0, Event("log", user_id))
  /\ UNCHANGED <<engine, calc, rec, coord, cls, api, term>>

\* WebSocketLogHandler.emit for the error logged by broadcast itself
log_send_error ==
  /\ ~hub.bc.on
  /\ hub.started < MaxBroadcasts
  /\ hub.logs > 0
  /\ hub' = [Entered(0, Event("log", 0)) EXCEPT !.logs = @ - 1]
  /\ UNCHANGED <<engine, calc, rec, coord, cls, api, term>>

\* the list the broadcast is going through
Current ==
  IF hub.bc.to # 0 THEN hub.conns[hub.bc.to]
  ELSE IF hub.bc.k <= Len(hub.keys) THEN hub.conns[hub.keys[hub.bc.k]]
       ELSE <<>>

\* connection.send_text inside the loops of broadcast: the next session of
\* the list gets the message, or the send raises and the error is logged
send_text ==
  LET bc == hub.bc
      connection == Current[bc.i]
  IN /\ bc.on
     /\ bc.i <= Len(Current)
     /\ IF connection \in hub.broken
        THEN hub' = [hub EXCEPT
                       !.failed = @ \cup {connection},
                       !.logs = IF @ < MaxBroadcasts THEN @ + 1 ELSE @,
                       !.bc.i = @ + 1,
                       !.bc.stayed = @ \ {connection},
                       !.last = [act |-> "send_error", s |-> connection,
                                 ev |-> bc.ev,
                                 again |-> connection \in hub.failed]]
        ELSE hub' = [hub EXCEPT
                       !.bc.i = @ + 1,
                       !.bc.got = IF bc.to = 0 THEN @
                                  ELSE Append(@, connection),
                       !.last = [act |-> "send", s |-> connection,
                                 ev |-> bc.ev,
                                 again |-> connection \in hub.failed]]
     /\ UNCHANGED <<engine, calc, rec, coord, cls, api, term>>

\* the list is exhausted: a broadcast to a user returns; a broadcast to all
\* goes to the next value of the dict, which raises RuntimeError when the
\* dict has changed size since the loop started
next_list ==
  LET bc == hub.bc IN
  /\ bc.on
  /\ bc.i > Len(Current)
  /\ IF bc.to # 0 \/ (bc.n = Len(hub.keys) /\ bc.k >= Len(hub.keys))
     THEN hub' = [hub EXCEPT !.bc = NoBroadcast,
                             !.last = [NoSend EXCEPT !.act = "returned"]]
     ELSE IF bc.n # Len(hub.keys)
     THEN hub' = [hub EXCEPT !.bc = NoBroadcast,
                             !.last = [NoSend EXCEPT !.act = "raised"]]
     ELSE hub' = [hub EXCEPT !.bc.k = @ + 1, !.bc.i = 1, !.last = NoSend]
  /\ UNCHANGED <<engine, calc, rec, coord, cls, api, term>>

HubNext ==
  \/ \E x \in Sessions : \E u \in Users : connect(x, u)
  \/ \E x \in Sessions : client_closes(x)
  \/ \E x \in Sessions : disconnect(x)
  \/ \E u \in Users : broadcast_user(u)
  \/ heartbeat_ping
  \/ \E u \in Users : log_line(u)
  \/ log_send_error
  \/ send_text
  \/ next_list

\* the engine at rest
EngineOff ==
  /\ parsed_data = NoSig
  /\ prefs = Pref(FALSE, FALSE, FALSE)
  /\ EngineIdle
  /\ calc = NoCalc

HubInit ==
  /\ EngineOff
  /\ hub = HubStart
  /\ rec = NoRec
  /\ coord = NoCoord
  /\ cls = NoCls
  /\ api = NoApi
  /\ term = NoTerm

HubSpec == HubInit /\ [][HubNext]_vars

\* ----- the recorder --------------------------------------------------------
\* TelegramSignalListener.handle_signal_message for one delivered message.
\* What is given: the category parse_signal returns, whether the
\* TelegramChannel row of (channel id, user) exists, the number of active
\* subscribers, whether the commit of the Signal row fails.  What is
\* observed: the events broadcast to the user's sessions, the messages
\* forwarded, the Signal rows written, the calls of the execution handler,
\* the audit events written.
Categories == {"actionable_signal", "modification", "commentary"}

Delivered(category, channel, subscribers, commit_fails) ==
  [pc |-> "delivered", category |-> category, channel |-> channel,
   subscribers |-> subscribers, commit_fails |-> commit_fails,
   left |-> 0, events |-> <<>>, forwarded |-> 0, signals |-> 0,
   engine |-> 0, audit |-> 0, failed |-> FALSE]

\* every message is handed to the engine, whatever its category
ActionableAlways(category) == TRUE

\* the test of line 165: message_category is actionable_signal
Actionable(category) == category = "actionable_signal"

\* lines 154-178: the message is parsed; a message that is not actionable
\* is announced as telegram_message and the handler returns
handle_signal_message ==
  /\ rec.pc = "delivered"
  /\ IF Actionable(rec.category)
     THEN rec' = [rec EXCEPT !.pc = "forward", !.left = rec.subscribers]
     ELSE rec' = [rec EXCEPT !.pc = "returning",
                             !.events = Append(@, "telegram_message")]
  /\ UNCHANGED <<engine, calc, hub, coord, cls, api, term>>

\* lines 217-223: the reformatted message is sent to the next subscriber;
\* a send that raises is logged
forward ==
  /\ rec.pc = "forward"
  /\ rec.left > 0
  /\ \/ rec' = [rec EXCEPT !.left = @ - 1, !.forwarded = @ + 1]
     \/ rec' = [rec EXCEPT !.left = @ - 1]
  /\ UNCHANGED <<engine, calc, hub, coord, cls, api, term>>

\* lines 228-270: the channel is looked up (absent: logged, return); the
\* Signal row is added and committed (a commit that raises goes to the
\* except clause of line 276: logged, rollback); signal_received is
\* broadcast
record_signal ==
  /\ rec.pc = "forward"
  /\ rec.left = 0
  /\ IF ~rec.channel
     THEN rec' = [rec EXCEPT !.pc = "done"]
     ELSE IF rec.commit_fails
     THEN rec' = [rec EXCEPT !.pc = "done", !.failed = TRUE]
     ELSE rec' = [rec EXCEPT !.pc = "execute", !.signals = @ + 1,
                             !.events = Append(@, "signal_received")]
  /\ UNCHANGED <<engine, calc, hub, coord, cls, api, term>>

\* lines 272-274: the execution handler is called with the signal
call_execution_handler ==
  /\ rec.pc = "execute"
  /\ rec' = [rec EXCEPT !.pc = "done", !.engine = @ + 1]
  /\ UNCHANGED <<engine, calc, hub, coord, cls, api, term>>

\* the broadcast of telegram_message is over: return of line 178
return_ignored ==
  /\ rec.pc = "returning"
  /\ rec' = [rec EXCEPT !.pc = "done"]
  /\ UNCHANGED <<engine, calc, hub, coord, cls, api, term>>

RecNext ==
  \/ handle_signal_message
  \/ forward
  \/ record_signal
  \/ call_execution_handler
  \/ return_ignored

RecInit ==
  /\ EngineOff
  /\ hub = NoHub
  /\ rec \in { Delivered(c, ch, n, f) :
                 c \in Categories, ch \in BOOLEAN, n \in 0..MaxSubscribers,
                 f \in BOOLEAN }
  /\ coord = NoCoord
  /\ cls = NoCls
  /\ api = NoApi
  /\ term = NoTerm

RecSpec == RecInit /\ [][RecNext]_vars

\* ----- the coordinator ------------------------------------------------------
\* TradingSignalPlatform.run / shutdown and the start and stop endpoints of
\* the API process.  run and shutdown are coroutines of one event loop; a
\* step runs from one suspension to the next.  The stop endpoint is taken
\* while the platform has not begun to run, while it is listening or after
\* its run has ended, and a start is taken while no stop is in progress.
\* orphans counts the synchronizer loops of platforms that start_system has
\* replaced without a shutdown.

CoordStart ==
  [pc |-> "coord", run |-> "none", stop |-> "idle", instance |-> FALSE,
   client |-> "none", is_running |-> FALSE, sync_running |-> FALSE,
   sync_task |-> "none", heartbeats |-> 0, starts |-> 0, beats |-> 0,
   order |-> <<>>, stopped |-> FALSE, orphans |-> 0]

\* GET /api/system/status: running while system_task exists and is not done
get_system_status ==
  IF coord.run \in {"none", "done"} THEN "stopped" ELSE "running"

\* POST /api/system/start, when system_task is None or done: a new platform
\* takes the place of platform_instance, and a new task runs it
start_system ==
  /\ coord.pc = "coord"
  /\ coord.stop = "idle"
  /\ get_system_status = "stopped"
  /\ coord.starts < MaxStarts
  /\ coord' = [coord EXCEPT !.instance = TRUE, !.run = "created",
                            !.client = "none", !.is_running = FALSE,
                            !.sync_running = FALSE, !.sync_task = "none",
                            !.orphans = IF coord.sync_task = "alive"
                                        THEN @ + 1 ELSE @,
                            !.starts = @ + 1, !.order = <<>>,
                            !.stopped = FALSE]
  /\ UNCHANGED <<engine, calc, hub, rec, cls, api, term>>

\* run: initialize(), then telegram_listener.connect() up to client.start
run_initialize ==
  /\ coord.pc = "coord"
  /\ coord.run = "created"
  /\ coord.stop = "idle"
  /\ coord' = [coord EXCEPT !.run = "connecting"]
  /\ UNCHANGED <<engine, calc, hub, rec, cls, api, term>>

\* run: connect() returns True; the channels are registered
run_register ==
  /\ coord.pc = "coord"
  /\ coord.run = "connecting"
  /\ coord' = [coord EXCEPT !.run = "registering", !.client = "connected",
                            !.is_running = TRUE]
  /\ UNCHANGED <<engine, calc, hub, rec, cls, api, term>>

\* run: create_task(heartbeat()), sync_manager.start(), start_listening()
run_listen ==
  /\ coord.pc = "coord"
  /\ coord.run = "registering"
  /\ coord' = [coord EXCEPT !.run = "listening",
                            !.heartbeats = @ + 1,
                            !.sync_running = TRUE,
                            !.sync_task = IF coord.sync_running THEN @
                                          ELSE "alive"]
  /\ UNCHANGED <<engine, calc, hub, rec, cls, api, term>>

\* run: connect() returns False and run raises; the task of run_platform
\* logs the error and ends
run_fails ==
  /\ coord.pc = "coord"
  /\ coord.run = "connecting"
  /\ coord.stop = "idle"
  /\ coord' = [coord EXCEPT !.run = "done"]
  /\ UNCHANGED <<engine, calc, hub, rec, cls, api, term>>

\* the Telegram client loses its connection while the platform listens
listener_disconnects ==
  /\ coord.pc = "coord"
  /\ coord.run = "listening"
  /\ coord.stop = "idle"
  /\ coord.client = "connected"
  /\ coord' = [coord EXCEPT !.client = "disconnected"]
  /\ UNCHANGED <<engine, calc, hub, rec, cls, api, term>>

\* run: run_until_disconnected returns once the client is disconnected
run_returns ==
  /\ coord.pc = "coord"
  /\ coord.run = "listening"
  /\ coord.client = "disconnected"
  /\ coord' = [coord EXCEPT !.run = "done"]
  /\ UNCHANGED <<engine, calc, hub, rec, cls, api, term>>

\* one round of a heartbeat task: it logs and sleeps again
heartbeat ==
  /\ coord.pc = "coord"
  /\ coord.heartbeats > 0
  /\ coord.beats < MaxBeats
  /\ coord' = [coord EXCEPT !.beats = @ + 1]
  /\ UNCHANGED <<engine, calc, hub, rec, cls, api, term>>

\* POST /api/system/stop, up to its first suspension: with a listening
\* platform that is client.disconnect() inside shutdown; with a platform that
\* has not begun to run every component is still None and shutdown does
\* nothing; with no platform only the log line is left
stop_system ==
  /\ coord.pc = "coord"
  /\ coord.stop = "idle"
  /\ coord.run \in {"none", "created", "listening", "done"}
  /\ coord' =
       CASE coord.run \in {"listening", "done"} ->
              [coord EXCEPT !.stop = "disconnecting", !.order = <<>>,
                            !.stopped = FALSE]
         [] coord.run = "created" ->
              [coord EXCEPT !.stop = "cancelling", !.instance = FALSE,
                            !.order = <<>>, !.stopped = FALSE]
         [] OTHER ->
              [coord EXCEPT !.instance = FALSE, !.order = <<>>,
                            !.stopped = TRUE]
  /\ UNCHANGED <<engine, calc, hub, rec, cls, api, term>>

\* shutdown: the client is disconnected; then sync_manager.stop() clears
\* is_running, cancels the loop task and awaits it
shutdown_listener ==
  /\ coord.pc = "coord"
  /\ coord.stop = "disconnecting"
  /\ coord' = [coord EXCEPT !.stop = "stopping_sync",
                            !.client = "disconnected",
                            !.is_running = FALSE,
                            !.sync_running = FALSE,
                            !.order = Append(@, "listener")]
  /\ UNCHANGED <<engine, calc, hub, rec, cls, api, term>>

\* shutdown: the loop task has ended; the broker adapter is disconnected and
\* the engine disposed; stop_system then cancels the run task and awaits it
shutdown_sync ==
  /\ coord.pc = "coord"
  /\ coord.stop = "stopping_sync"
  /\ coord' = [coord EXCEPT !.stop = "cancelling",
                            !.sync_task = IF @ = "alive" THEN "ended" ELSE @,
                            !.instance = FALSE,
                            !.order = Append(@, "synchronizer")]
  /\ UNCHANGED <<engine, calc, hub, rec, cls, api, term>>

\* stop_system: the run task is over (returned or cancelled), system_task is
\* cleared and "stopped" is answered
stop_done ==
  /\ coord.pc = "coord"
  /\ coord.stop = "cancelling"
  /\ coord' = [coord EXCEPT !.stop = "idle", !.run = "none",
                            !.stopped = TRUE]
  /\ UNCHANGED <<engine, calc, hub, rec, cls, api, term>>

CoordNext ==
  \/ start_system
  \/ run_initialize
  \/ run_register
  \/ run_listen
  \/ run_fails
  \/ listener_disconnects
  \/ run_returns
  \/ heartbeat
  \/ stop_system
  \/ shutdown_listener
  \/ shutdown_sync
  \/ stop_done

CoordInit ==
  /\ EngineOff
  /\ hub = NoHub
  /\ rec = NoRec
  /\ coord = CoordStart
  /\ cls = NoCls
  /\ api = NoApi
  /\ term = NoTerm

CoordSpec == CoordInit /\ [][CoordNext]_vars

\* ----- the signal parser ----------------------------------------------------
\* SignalParser.parse_signal on a message text.  A text is a sequence of
\* phrases joined by blanks; the regular expressions of the parser are
\* evaluated on the words of the text.  No price of these texts is read as
\* 0, so None stands for a missing price here as well.

Phrases ==
  {"gold", "sell", "22", "20 - 21", "1 - 3", "22 - 0", "sl 25", "tp 30",
   "tp 10", "managing risk", "patience is key", "be", "cancelling",
   "close half", "trail stop"}

\* the words of a phrase (str.split)
Split(p) ==
  CASE p = "20 - 21" -> <<"20", "-", "21">>
    [] p = "1 - 3" -> <<"1", "-", "3">>
    [] p = "22 - 0" -> <<"22", "-", "0">>
    [] p = "sl 25" -> <<"sl", "25">>
    [] p = "tp 30" -> <<"tp", "30">>
    [] p = "tp 10" -> <<"tp", "10">>
    [] p = "managing risk" -> <<"managing", "risk">>
    [] p = "patience is key" -> <<"patience", "is", "key">>
    [] p = "close half" -> <<"close", "half">>
    [] p = "trail stop" -> <<"trail", "stop">>
    [] OTHER -> <<p>>

RECURSIVE Words(_)
Words(text) ==
  IF text = <<>> THEN <<>> ELSE Split(Head(text)) \o Words(Tail(text))

Texts == UNION { [1..n -> Phrases] : n \in 0..MaxLen }

\* price_pattern \b\d{1,7}(?:\.\d{1,5})?\b and float() of its match
Numerals == {"0", "1", "3", "10", "20", "21", "22", "25", "30"}

float(x) ==
  CASE x = "0" -> 0 [] x = "1" -> 1 [] x = "3" -> 3 [] x = "10" -> 10
    [] x = "20" -> 20 [] x = "21" -> 21 [] x = "22" -> 22
    [] x = "25" -> 25 [] x = "30" -> 30

IsPrice(w, i) == i \in DOMAIN w /\ w[i] \in Numerals

\* \d+\.?\d+ of _has_price_structure: a number of at least two characters
TwoDigits(w, i) == IsPrice(w, i) /\ w[i] \notin {"0", "1", "3"}

Follows(w, a, b) == \E i \in DOMAIN w : w[i] = a /\ i + 1 \in DOMAIN w /\ w[i + 1] = b

\* the commentary patterns a text of these phrases can match:
\* (managing|manage)\s*risk and patience is key
MatchesCommentary(w) ==
  \/ Follows(w, "managing", "risk")
  \/ \E i \in DOMAIN w : /\ w[i] = "patience" /\ i + 2 \in DOMAIN w
                         /\ w[i + 1] = "is" /\ w[i + 2] = "key"

\* the keys of modification_patterns, in the order of the dict
ModificationKinds ==
  <<"breakeven_move", "cancellation", "partial_close", "stop_adjustment">>

MatchesKind(kind, w) ==
  CASE kind = "breakeven_move" -> \E i \in DOMAIN w : w[i] = "be"
    [] kind = "cancellation" -> \E i \in DOMAIN w : w[i] = "cancelling"
    [] kind = "partial_close" -> Follows(w, "close", "half")
    [] kind = "stop_adjustment" ->
         Follows(w, "trail", "stop") \/ Follows(w, "trail", "sl")
    [] OTHER -> FALSE

_extract_symbol(w) ==
  IF \E i \in DOMAIN w : w[i] = "gold" THEN "XAUUSD" ELSE "null"

_has_price_structure(w) ==
  LET has_entry == \/ \E i \in DOMAIN w : w[i] = "-"
                   \/ \E i \in DOMAIN w : w[i] = "sell" /\ TwoDigits(w, i + 1)
      has_sl == \E i \in DOMAIN w : w[i] = "sl" /\ TwoDigits(w, i + 1)
      has_tp == \E i \in DOMAIN w : w[i] = "tp" /\ TwoDigits(w, i + 1)
  IN has_entry /\ (has_sl \/ has_tp)

Classified(category, modification_type, checked) ==
  [category |-> category, modification_type |-> modification_type,
   checked |-> checked]

\* classify_message with the modification kinds looked at before the
\* commentary patterns
ClassifyModificationFirst(w) ==
  LET hits == {k \in DOMAIN ModificationKinds :
                 MatchesKind(ModificationKinds[k], w)}
      first == CHOOSE k \in hits : \A j \in hits : k <= j
  IN IF hits # {}
       THEN Classified("modification", ModificationKinds[first],
                       SubSeq(ModificationKinds, 1, first))
     ELSE IF MatchesCommentary(w)
       THEN Classified("commentary", "null", ModificationKinds)
     ELSE IF _extract_symbol(w) # "null" /\ _has_price_structure(w)
       THEN Classified("actionable_signal", "null", ModificationKinds)
     ELSE Classified("commentary", "null", ModificationKinds)

\* checked: the kinds whose patterns were tried, in the order tried
classify_message(w) ==
  LET hits == {k \in DOMAIN ModificationKinds :
                 MatchesKind(ModificationKinds[k], w)}
      first == CHOOSE k \in hits : \A j \in hits : k <= j
  IN IF MatchesCommentary(w)
       THEN Classified("commentary", "null", <<>>)
     ELSE IF hits # {}
       THEN Classified("modification", ModificationKinds[first],
                       SubSeq(ModificationKinds, 1, first))
     ELSE IF _extract_symbol(w) # "null" /\ _has_price_structure(w)
       THEN Classified("actionable_signal", "null", ModificationKinds)
     ELSE Classified("commentary", "null", ModificationKinds)

\* ----- _extract_prices

AddNew(q, x) == IF InSeq(q, x) THEN q ELSE Append(q, x)

RECURSIVE AddAll(_, _)
AddAll(q, xs) == IF xs = <<>> THEN q ELSE AddAll(AddNew(q, Head(xs)), Tail(xs))

\* `not x` of a price that is None or 0
Missing(x) == x = None \/ x = 0

\* 0.5 < a / b < 2.0 for b > 0
Near(a, b) == b < 2 * a /\ a < 2 * b

FirstIndex(S) == CHOOSE i \in S : \A j \in S : i <= j

\* re.finditer(tp_label_pattern): a numeral after the label is read as the
\* number of the label when another price follows it
RECURSIVE TpLabels(_, _, _)
TpLabels(w, i, tps) ==
  IF i > Len(w) THEN tps
  ELSE IF w[i] = "tp" /\ IsPrice(w, i + 1)
    THEN IF IsPrice(w, i + 2)
           THEN TpLabels(w, i + 3, AddNew(tps, float(w[i + 2])))
           ELSE TpLabels(w, i + 2, AddNew(tps, float(w[i + 1])))
  ELSE TpLabels(w, i + 1, tps)

RECURSIVE Floats(_)
Floats(w) ==
  IF w = <<>> THEN <<>>
  ELSE IF Head(w) \in Numerals THEN <<float(Head(w))>> \o Floats(Tail(w))
  ELSE Floats(Tail(w))

RECURSIVE RemoveFirst(_, _)
RemoveFirst(q, x) ==
  IF q = <<>> THEN <<>>
  ELSE IF Head(q) = x THEN Tail(q)
  ELSE <<Head(q)>> \o RemoveFirst(Tail(q), x)

SeqSet(q) == {q[i] : i \in DOMAIN q}

\* division by zero in p1 / p2 of the first range of the text
RangeRaises(w) ==
  LET dashes == {i \in DOMAIN w : w[i] = "-"}
  IN dashes # {} /\ float(w[FirstIndex(dashes) + 1]) = 0

_extract_prices(w) ==
  LET dashes == {i \in DOMAIN w : w[i] = "-"}
      d == FirstIndex(dashes)
      p1 == float(w[d - 1])
      p2 == float(w[d + 1])
      in_range == dashes # {} /\ Near(p1, p2)
      entry_range == IF in_range
                       THEN IF p1 <= p2 THEN <<p1, p2>> ELSE <<p2, p1>>
                     ELSE <<>>
      \* (?:buy|sell)\s+(?:...|[\w/]+)?\s*(price): the optional word is
      \* taken when a price follows it
      sells == {i \in DOMAIN w :
                  /\ w[i] = "sell"
                  /\ \/ (i + 1 \in DOMAIN w /\ w[i + 1] # "-" /\ IsPrice(w, i + 2))
                     \/ IsPrice(w, i + 1)}
      s == FirstIndex(sells)
      entry1 == IF in_range THEN entry_range[1]
                ELSE IF sells = {} THEN None
                ELSE IF w[s + 1] # "-" /\ IsPrice(w, s + 2) THEN float(w[s + 2])
                ELSE float(w[s + 1])
      stops == {i \in DOMAIN w :
                  w[i] \in {"sl", "stop", "risk"} /\ IsPrice(w, i + 1)}
      stop1 == IF stops = {} THEN None ELSE float(w[FirstIndex(stops) + 1])
      labels == {i \in DOMAIN w : w[i] = "tp" /\ IsPrice(w, i + 1)}
      tps0 == TpLabels(w, 1, <<>>)
      tps1 == IF labels = {} THEN tps0
              ELSE AddNew(tps0, float(w[FirstIndex(labels) + 1]))
      tp1 == IF tps1 = <<>> THEN None ELSE tps1[1]
      significant_numbers ==
        SelectSeq(Floats(w),
                  LAMBDA n : n > 10 \/ (~Missing(entry1) /\ Near(n, entry1)))
      found_values ==
        ({entry1, stop1} \ {None}) \cup SeqSet(entry_range) \cup SeqSet(tps1)
      remaining0 == SelectSeq(significant_numbers,
                              LAMBDA n : n \notin found_values)
      guess == Missing(entry1) /\ significant_numbers # <<>>
      entry2 == IF guess THEN significant_numbers[1] ELSE entry1
      remaining1 == IF guess THEN RemoveFirst(remaining0, entry2)
                    ELSE remaining0
      fill == Missing(stop1) /\ remaining1 # <<>>
      stop2 == IF fill THEN remaining1[1] ELSE stop1
      remaining2 == IF fill THEN Tail(remaining1) ELSE remaining1
      tps2 == AddAll(tps1, remaining2)
      tp2 == IF Missing(tp1) /\ tps2 # <<>> THEN tps2[1] ELSE tp1
  IN [entry |-> entry2, entry_range |-> entry_range, stop_loss |-> stop2,
      take_profit |-> tp2, take_profits |-> tps2]

_determine_signal_type(w) ==
  IF \E i \in DOMAIN w : w[i] = "sell" THEN "sell"
  ELSE IF \E i \in DOMAIN w : w[i] = "close" THEN "close"
  ELSE "null"

Parsed(method, signal_type, symbol, prices) ==
  [parsing_method |-> method, signal_type |-> signal_type, symbol |-> symbol,
   entry_price |-> prices.entry, entry_range |-> prices.entry_range,
   stop_loss |-> prices.stop_loss, take_profit |-> prices.take_profit,
   take_profits |-> prices.take_profits,
   message_category |-> "null", modification_type |-> "null",
   is_actionable |-> FALSE]

NoPrices ==
  [entry |-> None, entry_range |-> <<>>, stop_loss |-> None,
   take_profit |-> None, take_profits |-> <<>>]

\* the record of _error_response: it has no message_category key
_error_response == Parsed("error", "null", "null", NoPrices)

_parse_with_heuristics(w) ==
  Parsed("heuristic", _determine_signal_type(w), _extract_symbol(w),
         _extract_prices(w))

\* what the JSON of the model's answer holds; the record built from it has
\* no entry_range and no take_profits key
NoAnswer ==
  [signal_type |-> "null", symbol |-> "null", entry |-> None,
   entry_range |-> <<>>, stop_loss |-> None, take_profit |-> None,
   take_profits |-> <<>>]

LlmAnswers ==
  { NoAnswer,
    [signal_type |-> "sell", symbol |-> "XAUUSD", entry |-> 20,
     entry_range |-> <<>>, stop_loss |-> 25, take_profit |-> 10,
     take_profits |-> <<>>] }

_parse_llm_response(answer) ==
  Parsed("llm", answer.signal_type, answer.symbol, answer)

\* "off": no api key; "down": the request fails or is not answered with 200
LlmModes ==
  { [mode |-> m, answer |-> NoAnswer] : m \in {"off", "down"} }
    \cup { [mode |-> "answer", answer |-> a] : a \in LlmAnswers }

ParseInputs == Texts \X LlmModes

ParseStart(text, llm) ==
  [pc |-> "text", text |-> text, llm |-> llm,
   classification |-> Classified("null", "null", <<>>),
   out |-> _error_response]

\* parse_signal: classify, parse on the path use_llm selects, then write the
\* classification into the record; an exception gives _error_response
parse_signal ==
  /\ cls.pc = "text"
  /\ LET w == Words(cls.text)
         c == classify_message(w)
         answered == cls.llm.mode = "answer"
         result == IF answered THEN _parse_llm_response(cls.llm.answer)
                   ELSE _parse_with_heuristics(w)
     IN cls' = [cls EXCEPT
                  !.pc = "parsed",
                  !.classification = c,
                  !.out = IF ~answered /\ RangeRaises(w) THEN _error_response
                          ELSE [result EXCEPT
                                  !.message_category = c.category,
                                  !.modification_type = c.modification_type,
                                  !.is_actionable =
                                     c.category = "actionable_signal"]]
  /\ UNCHANGED <<engine, calc, hub, rec, coord, api, term>>

ClsNext == parse_signal

ClsInit ==
  /\ EngineOff
  /\ hub = NoHub
  /\ rec = NoRec
  /\ coord = NoCoord
  /\ \E i \in ParseInputs : cls = ParseStart(i[1], i[2])
  /\ api = NoApi
  /\ term = NoTerm

ClsSpec == ClsInit /\ [][ClsNext]_vars

\* ----- two runs of the parser on one text -----------------------------------
\* parse_signal without an api key, run twice on the same text.  The set
\* common_symbols is iterated in the order of the process's string hashes,
\* which changes from one process to the next; parsed_at is the clock of the
\* call.  Texts may name two known symbols.

PureTexts == UNION { [1..n -> Phrases \cup {"btc"}] : n \in 0..MaxLen }

\* the orders in which the loop over common_symbols meets GOLD and BTC
SymbolOrders == {<<"GOLD", "BTC">>, <<"BTC", "GOLD">>}

Clock == 1..MaxClock

symbol_map(symbol) == IF symbol = "GOLD" THEN "XAUUSD" ELSE symbol

InText(symbol, w) ==
  \E i \in DOMAIN w : w[i] = (IF symbol = "GOLD" THEN "gold" ELSE "btc")

\* _extract_symbol with the iteration order of common_symbols made explicit
ExtractSymbolIn(common_symbols, w) ==
  LET hits == {i \in DOMAIN common_symbols : InText(common_symbols[i], w)}
  IN IF hits = {} THEN "null"
     ELSE symbol_map(common_symbols[FirstIndex(hits)])

\* the record of one call of parse_signal at time now
RunParse(common_symbols, w, now) ==
  LET c == classify_message(w)
      symbol == ExtractSymbolIn(common_symbols, w)
      \* the default branch of classify_message, with this symbol
      category == IF /\ c.category = "commentary"
                     /\ ~MatchesCommentary(w)
                     /\ symbol # "null"
                     /\ _has_price_structure(w)
                    THEN "actionable_signal"
                  ELSE c.category
  IN [parsed_at |-> now,
      record |-> IF RangeRaises(w) THEN _error_response
                 ELSE [_parse_with_heuristics(w) EXCEPT
                         !.symbol = symbol,
                         !.message_category = category,
                         !.modification_type = c.modification_type,
                         !.is_actionable = category = "actionable_signal"]]

NoRun == [parsed_at |-> 0, record |-> _error_response]

PureStart(text, common_symbols) ==
  [pc |-> "fresh", text |-> text, common_symbols |-> common_symbols,
   now |-> 1, first |-> NoRun, second |-> NoRun]

\* the first call
first_run ==
  /\ cls.pc = "fresh"
  /\ cls' = [cls EXCEPT !.pc = "once",
               !.first = RunParse(cls.common_symbols, Words(cls.text), cls.now)]
  /\ UNCHANGED <<engine, calc, hub, rec, coord, api, term>>

\* time passes between the calls
tick ==
  /\ cls.pc = "once"
  /\ cls.now < MaxClock
  /\ cls' = [cls EXCEPT !.now = @ + 1]
  /\ UNCHANGED <<engine, calc, hub, rec, coord, api, term>>

\* the process is started again: the parser is built with a new set
restart ==
  /\ cls.pc = "once"
  /\ \E order \in SymbolOrders : cls' = [cls EXCEPT !.common_symbols = order]
  /\ UNCHANGED <<engine, calc, hub, rec, coord, api, term>>

\* the second call, on the same text
second_run ==
  /\ cls.pc = "once"
  /\ cls' = [cls EXCEPT !.pc = "twice",
               !.second = RunParse(cls.common_symbols, Words(cls.text), cls.now)]
  /\ UNCHANGED <<engine, calc, hub, rec, coord, api, term>>

PureNext ==
  \/ first_run
  \/ tick
  \/ restart
  \/ second_run

PureInit ==
  /\ EngineOff
  /\ hub = NoHub
  /\ rec = NoRec
  /\ coord = NoCoord
  /\ \E text \in PureTexts, order \in SymbolOrders :
       cls = PureStart(text, order)
  /\ api = NoApi
  /\ term = NoTerm

PureSpec == PureInit /\ [][PureNext]_vars

\* ----- the routes that look a resource up -----------------------------------
\* One request to a route of api/routes.py that names a resource by id.  The
\* body of the handler is a try block; the 404 is an HTTPException raised
\* inside it, and the except clause of the handler catches Exception.

Routes ==
  {"get_signal", "get_execution", "close_execution", "modify_execution",
   "confirm_execution", "delete_broker_config", "delete_telegram_channel",
   "delete_subscriber", "delete_credential"}

\* whose the named resource is, if it exists
Resources == {"owned", "other", "absent"}

ApiRequest(route, resource, fault) ==
  [pc |-> "request", route |-> route, resource |-> resource, fault |-> fault,
   raised |-> "none", code |-> 0, status |-> 0]

\* the lookup of the handler: every query filters on the caller's user id,
\* except CredentialManager.delete_credential, which filters on the id alone
\* and answers False when its query raises
Found(route, resource, fault) ==
  IF route = "delete_credential" THEN resource # "absent" /\ ~fault
  ELSE resource = "owned"

\* the status the except clause of the route raises
ExceptStatus(route) ==
  IF route \in {"get_signal", "get_execution"} THEN 500 ELSE 400

\* the try block: the lookup; 404 raised when nothing is found
route_try ==
  /\ api.pc = "request"
  /\ api' =
       IF api.fault /\ api.route # "delete_credential"
         THEN [api EXCEPT !.pc = "except", !.raised = "Exception"]
       ELSE IF ~Found(api.route, api.resource, api.fault)
         THEN [api EXCEPT !.pc = "except", !.raised = "HTTPException",
                          !.code = 404]
       ELSE [api EXCEPT !.pc = "responded", !.status = 200]
  /\ UNCHANGED <<engine, calc, hub, rec, coord, cls, term>>

\* except Exception as e: raise HTTPException(status_code=..., detail=str(e))
route_except ==
  /\ api.pc = "except"
  /\ api' = [api EXCEPT !.pc = "responded",
                        !.status = ExceptStatus(api.route)]
  /\ UNCHANGED <<engine, calc, hub, rec, coord, cls, term>>

ApiNext ==
  \/ route_try
  \/ route_except

ApiInit ==
  /\ EngineOff
  /\ hub = NoHub
  /\ rec = NoRec
  /\ coord = NoCoord
  /\ cls = NoCls
  /\ \E route \in Routes, resource \in Resources, fault \in BOOLEAN :
       api = ApiRequest(route, resource, fault)
  /\ term = NoTerm

ApiSpec == ApiInit /\ [][ApiNext]_vars

\* ----- the broker terminal ---------------------------------------------------
\* MT5Executor.connect initializes and logs in the MetaTrader5 module, which
\* is one terminal session for the whole process: every MT5Executor object
\* keeps a reference to that same module (self.mt5 = mt5), and order_send
\* goes to the account the terminal is logged in to at that moment.  Two
\* executions (two requests, each with its own handler) and the synchronizer
\* share the event loop.

\* the user's broker accounts (login, server), by BrokerConfig
Accounts == {1, 2}

Executions == {1, 2}

\* one execution in _process_single_execution: its broker configuration,
\* where it is, and the accounts its orders were sent to, in order
Waiting(b) == [broker |-> b, pc |-> "validated", sent |-> <<>>]

\* _process_single_execution up to its first suspension: connect to the
\* account of the execution's own broker configuration, price the order,
\* then the "executing" broadcast; a failed connect raises
_process_single_execution(i) ==
  LET ex == term.exec[i] IN
  /\ term.pc = "run"
  /\ ex.pc = "validated"
  /\ \/ term' = [term EXCEPT !.terminal = ex.broker,
                             !.exec[i].pc = "exec_bcast"]
     \/ term' = [term EXCEPT !.terminal = 0, !.exec[i].pc = "failed"]
  /\ UNCHANGED <<engine, calc, hub, rec, coord, cls, api>>

\* resumed after the "executing" broadcast: the order is sent through the
\* terminal as it is logged in now; a rejected market order falls back
execute_market_order(i) ==
  LET ex == term.exec[i]
      sent == IF term.terminal = 0 THEN ex.sent
              ELSE Append(ex.sent, term.terminal)
  IN
  /\ term.pc = "run"
  /\ ex.pc = "exec_bcast"
  /\ \/ /\ term.terminal # 0
        /\ term' = [term EXCEPT !.exec[i].pc = "executed",
                                !.exec[i].sent = sent,
                                !.active = @ \cup {ex.broker}]
     \/ term' = [term EXCEPT !.exec[i].pc = "fallback_bcast",
                             !.exec[i].sent = sent]
  /\ UNCHANGED <<engine, calc, hub, rec, coord, cls, api>>

\* resumed after the "falling_back" broadcast: the limit order at the entry
execute_limit_order(i) ==
  LET ex == term.exec[i]
      sent == IF term.terminal = 0 THEN ex.sent
              ELSE Append(ex.sent, term.terminal)
  IN
  /\ term.pc = "run"
  /\ ex.pc = "fallback_bcast"
  /\ \/ /\ term.terminal # 0
        /\ term' = [term EXCEPT !.exec[i].pc = "executed",
                                !.exec[i].sent = sent,
                                !.active = @ \cup {ex.broker}]
     \/ term' = [term EXCEPT !.exec[i].pc = "failed", !.exec[i].sent = sent]
  /\ UNCHANGED <<engine, calc, hub, rec, coord, cls, api>>

\* a tick of the synchronizer reaches an account that has EXECUTED
\* executions and connects to it (_sync_broker_positions)
sync_connect(b) ==
  /\ term.pc = "run"
  /\ b \in term.active
  /\ term.terminal # b
  /\ term' = [term EXCEPT !.terminal = b]
  /\ UNCHANGED <<engine, calc, hub, rec, coord, cls, api>>

TermNext ==
  \/ \E i \in Executions : _process_single_execution(i)
  \/ \E i \in Executions : execute_market_order(i)
  \/ \E i \in Executions : execute_limit_order(i)
  \/ \E b \in Accounts : sync_connect(b)

TermInit ==
  /\ EngineOff
  /\ hub = NoHub
  /\ rec = NoRec
  /\ coord = NoCoord
  /\ cls = NoCls
  /\ api = NoApi
  /\ \E b1 \in Accounts, b2 \in Accounts, active \in SUBSET Accounts :
       term = [pc |-> "run", terminal |-> 0, active |-> active,
               exec |-> [i \in Executions |->
                           Waiting(IF i = 1 THEN b1 ELSE b2)]]

TermSpec == TermInit /\ [][TermNext]_vars

\* ----- whose Execution a request acts on -----------------------------------
\* One request of an authenticated caller to confirm, close or cancel one
\* Execution, the only one of its Signal.  The Execution belongs to owner.
Callers == {1, 2}

\* the Execution as stored: its state and whether it holds a ticket
StoredExecutions ==
  {<<PENDING_APPROVAL, FALSE>>, <<FAILED, FALSE>>, <<EXECUTED, TRUE>>,
   <<CANCELLED, FALSE>>, <<CLOSED, TRUE>>}

OwnRequest(route, caller, owner, ex) ==
  [pc |-> "call", route |-> route, caller |-> caller, owner |-> owner,
   state |-> ex[1], ticket |-> ex[2], signal_status |-> "pending",
   state0 |-> ex[1], status |-> 0]

\* db.query(TradeExecution).filter(id == execution_id, user_id == user_id)
OwnedLookup(a) == a.caller = a.owner

\* db_session.query(TradeExecution).filter(id == execution_id)
AnyLookup(a) == TRUE

\* POST /executions/{id}/confirm: the lookup by id and caller, the status
\* test, then the resumed execution, whose order succeeds or fails
confirm_lookup ==
  /\ api.pc = "call"
  /\ api.route = "confirm"
  /\ IF ~OwnedLookup(api) \/ api.state \notin {PENDING_APPROVAL, FAILED}
     THEN api' = [api EXCEPT !.pc = "answered", !.status = 400]
     ELSE \/ api' = [api EXCEPT !.pc = "answered", !.status = 200,
                                !.state = EXECUTED, !.ticket = TRUE,
                                !.signal_status = "processed"]
          \/ api' = [api EXCEPT !.pc = "answered", !.status = 400,
                                !.state = FAILED,
                                !.signal_status = "processed"]
  /\ UNCHANGED <<engine, calc, hub, rec, coord, cls, term>>

\* POST /executions/{id}/close: the lookup by id and caller, then
\* close_position, which the broker carries out or refuses
close_execution ==
  /\ api.pc = "call"
  /\ api.route = "close"
  /\ IF ~OwnedLookup(api)
     THEN api' = [api EXCEPT !.pc = "answered", !.status = 400]
     ELSE IF ~api.ticket
     THEN api' = [api EXCEPT !.pc = "answered", !.status = 200]
     ELSE \/ api' = [api EXCEPT !.pc = "answered", !.status = 200,
                                !.state = CLOSED]
          \/ api' = [api EXCEPT !.pc = "answered", !.status = 200]
  /\ UNCHANGED <<engine, calc, hub, rec, coord, cls, term>>

\* POST /executions/{id}/cancel: reject_execution(execution_id); user_id is
\* a parameter of the route that nothing reads
cancel_execution ==
  /\ api.pc = "call"
  /\ api.route = "cancel"
  /\ IF ~AnyLookup(api) \/ api.state # PENDING_APPROVAL
     THEN api' = [api EXCEPT !.pc = "answered", !.status = 400]
     ELSE api' = [api EXCEPT !.pc = "answered", !.status = 200,
                             !.state = CANCELLED,
                             !.signal_status = "rejected"]
  /\ UNCHANGED <<engine, calc, hub, rec, coord, cls, term>>

OwnNext ==
  \/ confirm_lookup
  \/ close_execution
  \/ cancel_execution

OwnInit ==
  /\ EngineOff
  /\ hub = NoHub
  /\ rec = NoRec
  /\ coord = NoCoord
  /\ cls = NoCls
  /\ term = NoTerm
  /\ \E route \in {"confirm", "close", "cancel"}, caller \in Callers,
        owner \in Callers, ex \in StoredExecutions :
       api = OwnRequest(route, caller, owner, ex)

OwnSpec == OwnInit /\ [][OwnNext]_vars

\* ----- claims -------------------------------------------------------------
Terminal == {EXECUTED, CLOSED, FAILED, CANCELLED}
OrdersOf(e) == {k \in 1..Len(orders) : orders[k].e = e}
Idle == \A t \in Tasks : task[t].pc = "idle"

\* C1: at-most-once execution: over its lifetime an Execution causes at most
\* one successfully placed broker order, for every interleaving of requests
\* (two concurrent confirms of one PENDING_APPROVAL or FAILED Execution never
\* give two placed orders).
C1_AtMostOneOrder ==
  \A e \in ExecIds : Cardinality(OrdersOf(e)) <= 1

\* C2: every Execution whose state is EXECUTED has a non-null ticket and a
\* non-null actual entry price (market order, limit order, or limit order
\* after the market-to-limit fallback).
C2_ExecutedHasTicketAndEntry ==
  \A e \in ExecIds :
    db[e].state = EXECUTED =>
      db[e].ticket_number # None /\ db[e].actual_entry_price # None

\* the edges of the state machine as the claim lists them
SpecEdges ==
  { <<NOROW, PENDING>>, <<NOROW, PENDING_APPROVAL>>,
    <<PENDING_APPROVAL, CANCELLED>>, <<PENDING_APPROVAL, VALIDATED>>,
    <<PENDING, VALIDATED>>, <<PENDING, FAILED>>, <<VALIDATED, EXECUTING>>,
    <<EXECUTING, EXECUTED>>, <<EXECUTING, FAILED>>, <<EXECUTED, CLOSED>>,
    <<FAILED, VALIDATED>> }

\* C3: every change of an Execution's state follows one of the edges
\* create->PENDING, create->PENDING_APPROVAL, PENDING_APPROVAL->CANCELLED,
\* PENDING_APPROVAL->VALIDATED, PENDING->VALIDATED, PENDING->FAILED,
\* VALIDATED->EXECUTING, EXECUTING->EXECUTED, EXECUTING->FAILED,
\* EXECUTED->CLOSED, FAILED->VALIDATED; no other state change ever occurs.
C3_OnlySpecEdges ==
  last.edges \subseteq SpecEdges

\* C4: once an Execution has been moved to CANCELLED by a cancel request, its
\* state never changes again and no broker order is placed for it, also when
\* a confirm of the same Execution is suspended while the cancel is handled.
C4_CancelledIsFinal ==
  [][\A e \in ExecIds :
       db[e].state = CANCELLED =>
         /\ db'[e].state = CANCELLED
         /\ \A k \in 1..Len(orders') : k > Len(orders) => orders'[k].e # e]_vars

\* C5: in every reachable state the Signal's status is rejected if and only
\* if the Signal has Executions and all of them are CANCELLED.
C5_RejectedIffAllCancelled ==
  (signal_status = "rejected") <=>
    (Rows(db) # {} /\ \A e \in Rows(db) : db[e].state = CANCELLED)

\* C6: in every reachable state the Signal's status is processed if and only
\* if all of its Executions are in a terminal state and at least one of them
\* is EXECUTED or CLOSED (all FAILED, or FAILED and CANCELLED, is not
\* processed).
C6_ProcessedIffExecuted ==
  (signal_status = "processed") <=>
    /\ \A e \in Rows(db) : db[e].state \in Terminal
    /\ \E e \in Rows(db) : db[e].state \in {EXECUTED, CLOSED}

\* C7: Signal.status is monotone: it only changes from pending to processed
\* or to rejected, and once processed or rejected it never changes again.
C7_SignalStatusMonotone ==
  [][signal_status # "pending" => signal_status' = signal_status]_vars

\* C8: the Signal's status is recomputed at every transition of one of its
\* Executions into a terminal state, so that once all Executions of the
\* Signal are terminal (and no handler is in flight) the Signal is not
\* pending any more.
C8_ResolvedSignalNotPending ==
  (Idle /\ Rows(db) # {} /\ \A e \in Rows(db) : db[e].state \in Terminal)
    => signal_status # "pending"

\* C9: approval gate: with the manual_approval preference set, an engine
\* invocation that is not a resume creates every Execution in
\* PENDING_APPROVAL, broadcasts exactly one signal_approval_required event
\* per created Execution, and makes no broker call before it returns.
C9_ApprovalGate ==
  (prefs.exists /\ prefs.manual_approval) =>
    /\ \A x \in last.edges : x[1] = NOROW => x[2] = PENDING_APPROVAL
    /\ \A e \in ExecIds : approval_events[e] = IF e <= nextId THEN 1 ELSE 0
    /\ last.kind \in {"post", "listener"} => last.calls = 0
    /\ \A t \in Tasks :
         task[t].kind \in {"post", "listener"} =>
           task[t].pc \in {"execute_signal", "approval_bcast"}
    /\ last.act = "approval_commit" =>
         \A e \in last.rows : db[e].state = PENDING_APPROVAL

\* an approval invocation has committed the two Executions of a two-TP signal
C9_Witness ==
  /\ prefs.exists /\ prefs.manual_approval
  /\ last.act = "approval_commit"
  /\ Cardinality(last.rows) = 2

\* validation failure as the claim words it
SpecInvalid(ps) ==
  \/ ~ps.symbol
  \/ ps.signal_type = "none"
  \/ ps.confidence_score < 5
  \/ /\ ps.entry_price # None /\ ps.stop_loss # None /\ ps.take_profit # None
     /\ \/ ps.signal_type = "buy" /\
             ~(ps.stop_loss < ps.entry_price /\ ps.entry_price < ps.take_profit)
        \/ ps.signal_type = "sell" /\
             ~(ps.take_profit < ps.entry_price /\ ps.entry_price < ps.stop_loss)

Validated == last.ps # NoSig

Max1(n) == IF n < 1 THEN 1 ELSE n

C12_Volume ==
  (calc.pc = "volume" /\ calc.user_prefs.exists /\ ~calc.user_prefs.null) =>
    LET rounded == Round2(calc.user_prefs.risk_per_trade, calc.tps)
    IN /\ calc.out = (IF rounded < 1 THEN 1 ELSE rounded)
       /\ calc.out >= 1

Priced == last.act = "executing" /\ last.quote # NoQuote
PricedRow == db[CHOOSE e \in last.rows : TRUE]

\* C13: entry-range pricing: for every order placement of an Execution whose
\* signal carries entry_range [low, high], on the auto path and on confirm
\* alike, a buy is sent as a market order iff ask <= high and otherwise as a
\* limit at high, and a sell as a market order iff bid >= low and otherwise
\* as a limit at low.
C13_RangePricing ==
  (Priced /\ Len(parsed_data.entry_range) = 2) =>
    LET low == parsed_data.entry_range[1]
        high == parsed_data.entry_range[2]
    IN IF parsed_data.signal_type = "buy"
       THEN /\ ~last.use_limit <=> last.quote.ask <= high
            /\ last.use_limit => last.price = high
       ELSE /\ ~last.use_limit <=> last.quote.bid >= low
            /\ last.use_limit => last.price = low

C15_Fallback ==
  \A t \in Tasks :
    LET tk == task[t]
        entry == tk.row.entry_price
        market == <<"market", None>>
    IN /\ Len(tk.attempts) <= 2
       /\ Len(tk.attempts) = 2 =>
            /\ tk.attempts[1] = market
            /\ entry # None
            /\ tk.attempts[2] = <<"limit", entry>>
            /\ Len(tk.events) >= 2
            /\ tk.events[1] = "executing" /\ tk.events[2] = "falling_back"
       /\ (tk.failing /\ tk.attempts = <<market>>) => entry = None
       /\ tk.pc = "fallback_bcast" =>
            /\ tk.attempts = <<market>> /\ entry # None
            /\ tk.events = <<"executing", "falling_back">>
       /\ (tk.events # <<>> /\ tk.events[Len(tk.events)] = "executed") =>
            tk.events = IF Len(tk.attempts) = 2
                        THEN <<"executing", "falling_back", "executed">>
                        ELSE <<"executing", "executed">>
       /\ (tk.attempts # <<>> /\ tk.attempts[1][1] = "limit") =>
            Len(tk.attempts) = 1

\* a market order failed and the limit order at the planned entry succeeded
C15_Witness ==
  \E t \in Tasks :
    /\ task[t].events = <<"executing", "falling_back", "executed">>
    /\ task[t].attempts = <<<<"market", None>>,
                            <<"limit", task[t].row.entry_price>>>>

\* C16: no placed-but-unrecorded ticket: every ticket the broker returned
\* for a successfully placed order is persisted as the ticket of the
\* Execution it was placed for and stays recorded there, for every
\* interleaving of requests.
C16_TicketRecorded ==
  \A k \in 1..Len(orders) : db[orders[k].e].ticket_number = k

\* C17: the synchronizer never changes the state or the close fields of an
\* Execution that is not in EXECUTED at the moment of the write, also when
\* an explicit close request moved it to CLOSED while the tick that had
\* selected it was suspended.
C17_SyncOnlyExecuted ==
  last.act = "sync_closed" => last.was = EXECUTED

\* C18: the synchronizer sets an Execution to CLOSED only when the broker
\* holds a closing deal for its ticket; with the ticket absent from the
\* open-positions list and no closing deal (also when the list is the
\* empty failure value while the position is still open) it leaves the
\* Execution as it is.
C18_ClosedOnlyWithDeal ==
  last.act = "sync_closed" =>
    \A e \in last.rows : orders[db[e].ticket_number].status = "closed"

\* C19: closure detection: an Execution EXECUTED with ticket T, T not among
\* the open positions and a closing deal with price p and profit q for T:
\* the synchronizer sets it to CLOSED with close_price = p and
\* profit_loss = q and emits position_closed, and after that tick its
\* parent Signal is processed (looked at where all Executions of the Signal
\* are terminal, as the Signal invariant asks, and no engine handler is
\* still at work).
C19_ClosureDetection ==
  /\ (last.act = "sync_closed" /\ last.was = EXECUTED) =>
       \A e \in last.rows :
         LET k == db[e].ticket_number IN
         orders[k].status = "closed" =>
           /\ db[e].state = CLOSED
           /\ db[e].close_price = orders[k].deal.price
           /\ db[e].profit_loss = orders[k].deal.profit
           /\ sync.pc = "bcast"
  /\ (last.act = "sync_end" /\ last.tick.closed # {} /\ AllResolved(db)
        /\ Idle) =>
       signal_status = "processed"

\* C20: synchronizer resilience: a failure inside a tick never ends the
\* loop, and a failure for one broker account does not prevent the other
\* accounts from being synchronized in the same tick: when a tick ends,
\* every account it selected and for which no step of its own failed has
\* had its executions gone through.
C20_Resilience ==
  last.act = "sync_end" =>
    (last.tick.sel \ last.tick.faults) \subseteq last.tick.reached

\* C21: when sending to a UI session raises, the hub logs the error and
\* drops the session from the user's session set, so that no later
\* broadcast attempts to send to it.
C21_FailedSessionDropped ==
  /\ hub.last.act \in {"send", "send_error"} => ~hub.last.again
  /\ hub.last.act = "send_error" =>
       ~InSeq(hub.conns[hub.owner[hub.last.s]], hub.last.s)

\* C22: user isolation in the hub: a UI session attached for user U never
\* receives an event that carries data of another user's messages, signals
\* or executions; broadcasts for a user reach only that user's sessions and
\* the events broadcast to all (ping, log) carry no other user's trade data.
C22_UserIsolation ==
  hub.last.act = "send" =>
    hub.last.ev.owner \in {0, hub.owner[hub.last.s]}

\* C23: if no ChannelSubscription exists for the (channel id, user) of a
\* delivered message, the event is dropped: no Signal row is written, the
\* Execution Engine is not invoked and nothing about the message is emitted
\* or forwarded downstream.
C23_NoChannelDropped ==
  ~rec.channel =>
    /\ rec.signals = 0
    /\ rec.engine = 0
    /\ rec.events = <<>>
    /\ rec.forwarded = 0

\* C24: if persisting the Signal row fails, the signal is not emitted
\* downstream: no signal_received event, no message forwarded to
\* Subscribers, no invocation of the Execution Engine.
C24_PersistFailureSilent ==
  rec.failed =>
    /\ ~InSeq(rec.events, "signal_received")
    /\ rec.forwarded = 0
    /\ rec.engine = 0

\* C25: for every message delivered on a subscribed channel and handled by
\* the recorder, an audit event is appended to the audit log before the
\* handling of that message completes.
C25_AuditWritten ==
  (rec.pc = "done" /\ rec.channel /\ ~rec.failed) => rec.audit >= 1

\* C26: the recorder invokes the Execution Engine only for messages
\* classified actionable_signal: for commentary or modification no
\* Execution is created, no broker call is made, and a telegram_message
\* event (not signal_received) is emitted.
C26_OnlyActionableExecuted ==
  rec.category \in {"commentary", "modification"} =>
    /\ rec.engine = 0
    /\ rec.signals = 0
    /\ rec.forwarded = 0
    /\ ~InSeq(rec.events, "signal_received")
    /\ rec.pc \in {"returning", "done"} => rec.events = <<"telegram_message">>

\* a commentary or modification has been handled to its end
C26_Witness ==
  /\ rec.pc = "done"
  /\ rec.category \in {"commentary", "modification"}
  /\ rec.events = <<"telegram_message">>

\* C27: when a stop of the coordinator has completed, the listener was
\* stopped first and the synchronizer second, the message source is
\* disconnected, the synchronizer loop task has ended, and no heartbeat task
\* started by the coordinator is still running.
C27_StopStopsAll ==
  (coord.pc = "coord" /\ coord.stopped) =>
    /\ coord.client # "connected"
    /\ coord.sync_task # "alive"
    /\ coord.order \in {<<>>, <<"listener", "synchronizer">>}
    /\ coord.heartbeats = 0

\* C28: a text that matches the keyword set of a modification sub-kind is
\* classified as modification with the first sub-kind it matches, also when
\* the text contains commentary phrases.
C28_ModificationBeatsCommentary ==
  cls.pc = "parsed" =>
    LET w == Words(cls.text)
    IN \A k \in DOMAIN ModificationKinds :
         (/\ MatchesKind(ModificationKinds[k], w)
          /\ \A j \in 1..(k - 1) : ~MatchesKind(ModificationKinds[j], w))
         => /\ cls.classification.category = "modification"
            /\ cls.classification.modification_type = ModificationKinds[k]

C29_Decision ==
  cls.pc = "parsed" =>
    LET w == Words(cls.text)
        c == cls.classification
        Is(category, type) ==
          c.category = category /\ c.modification_type = type
    IN IF MatchesCommentary(w) THEN Is("commentary", "null")
       ELSE IF MatchesKind("breakeven_move", w)
         THEN Is("modification", "breakeven_move")
       ELSE IF MatchesKind("cancellation", w)
         THEN Is("modification", "cancellation")
       ELSE IF MatchesKind("partial_close", w)
         THEN Is("modification", "partial_close")
       ELSE IF MatchesKind("stop_adjustment", w)
         THEN Is("modification", "stop_adjustment")
       ELSE IF _extract_symbol(w) # "null" /\ _has_price_structure(w)
         THEN Is("actionable_signal", "null")
       ELSE Is("commentary", "null")

C29_NothingMatched ==
  /\ cls.pc = "parsed"
  /\ ~MatchesCommentary(Words(cls.text))
  /\ cls.classification.category # "modification"

C30_RecordWellFormed ==
  cls.pc = "parsed" =>
    /\ cls.out.message_category \in Categories
    /\ cls.out.message_category = "actionable_signal" =>
         /\ cls.out.symbol # "null"
         /\ cls.out.entry_price # None \/ cls.out.entry_range # <<>>
         /\ cls.out.stop_loss # None \/ cls.out.take_profits # <<>>

\* C31: two runs of parse_signal on the same text return equal records,
\* whatever the time of each call and whatever the iteration order of the
\* set of known symbols in the process of each call.
C31_SameTextSameRecord ==
  cls.pc = "twice" => cls.first = cls.second

\* C32: a request that names a resource which is absent, or is not the
\* caller's, is answered with status 404.
C32_AbsentIs404 ==
  (api.pc = "responded" /\ api.resource # "owned" /\ ~api.fault) =>
    api.status = 404

\* the planned and broker-side fields of an Execution the claim names
Kept(row) == <<row.state, row.ticket_number, row.stop_loss, row.take_profit>>

\* C33: a confirm resumes a single Execution: every step of the handler of a
\* confirm of Execution e sends at most one order, for e, and leaves the
\* state, ticket, planned SL and planned TP of every other Execution as they
\* were; the request's SL/TP override replaces e's planned value, and an
\* omitted override keeps the stored one.
C33_ConfirmFrame ==
  [][ /\ \A t \in Tasks :
          (task'[t] # task[t] /\
             (task[t].kind = "confirm" \/ task'[t].kind = "confirm")) =>
            LET e == IF task[t].kind = "confirm" THEN task[t].e
                     ELSE task'[t].e
            IN /\ \A x \in ExecIds \ {e} : Kept(db'[x]) = Kept(db[x])
               /\ \/ orders' = orders
                  \/ /\ Len(orders') = Len(orders) + 1
                     /\ SubSeq(orders', 1, Len(orders)) = orders
                     /\ orders'[Len(orders')].e = e
      /\ (requests' # requests /\ last'.kind = "confirm") =>
           /\ orders' = orders
           /\ \A x \in ExecIds \ last'.rows : db'[x] = db[x]
           /\ \A t \in Tasks : \A e \in last'.rows : \A o \in Overrides :
                (FreeSlot(t) /\ confirm_execution(t, e, o[1], o[2])) =>
                  /\ db'[e].stop_loss =
                       (IF o[1] # None THEN o[1] ELSE db[e].stop_loss)
                  /\ db'[e].take_profit =
                       (IF o[2] # None THEN o[2] ELSE db[e].take_profit)
    ]_vars

\* an Execution of a signal with stop loss 1 has been confirmed with the SL
\* override 3 and its order placed, while a sibling still awaits approval
\* with the stop loss of the signal
C33_Witness ==
  /\ last.act = "executed"
  /\ last.kind = "confirm"
  /\ parsed_data.stop_loss = 1
  /\ \E e \in last.rows :
       /\ db[e].stop_loss = 3
       /\ orders[Len(orders)].e = e
       /\ \E x \in ExecIds \ {e} :
            db[x].state = PENDING_APPROVAL /\ db[x].stop_loss = 1

\* C34: every order of an Execution is sent to the broker account of that
\* Execution's own broker configuration, whatever other executions and
\* synchronizer ticks connect to the terminal in the meantime.
C34_OwnAccount ==
  term.pc = "run" =>
    \A i \in Executions :
      \A k \in 1..Len(term.exec[i].sent) :
        term.exec[i].sent[k] = term.exec[i].broker

\* C35: once an Execution has been committed as EXECUTED with its ticket, a
\* failure of the execution_update broadcast or of the recomputation of the
\* signal status does not change its state: no step takes an Execution from
\* EXECUTED to FAILED.
C35_ExecutedStays ==
  last.act = "except" => <<EXECUTED, FAILED>> \notin last.edges

\* C36: a cancel, confirm or close request changes an Execution's state, and
\* the status of its Signal, only when the caller is the user who owns the
\* Execution.
C36_OwnerOnly ==
  (api.pc = "answered" /\ api.caller # api.owner) =>
    /\ api.state = api.state0
    /\ api.signal_status = "pending"

\* how many times session x got the message of the broadcast in progress
Times(x) ==
  Cardinality({j \in 1..Len(hub.bc.got) : hub.bc.got[j] = x})

\* C37: when a broadcast to a user has gone through its list, every session
\* of that user that was attached from its start to its end, and whose own
\* send did not fail, has received the message exactly once, whatever other
\* sessions did in the meantime.
C37_ExactlyOnce ==
  (hub.pc = "hub" /\ hub.bc.on /\ hub.bc.to # 0 /\
     hub.bc.i > Len(Current)) =>
    \A x \in hub.bc.stayed \ hub.broken : Times(x) = 1

\* the synchronizer loops that are alive
Loops == coord.orphans + (IF coord.sync_task = "alive" THEN 1 ELSE 0)

\* C38: at most one synchronizer loop is active at any time, and whenever
\* GET /system/status reports stopped no synchronizer loop that the platform
\* started is still running.
C38_OneLoop ==
  coord.pc = "coord" =>
    /\ Loops <= 1
    /\ get_system_status = "stopped" => Loops = 0

\* C39: when a signal_approval_required event is sent, the Execution it
\* names is already committed in PENDING_APPROVAL, so that a confirm or a
\* cancel issued on receipt of the event finds it.
C39_CommittedBeforeEvent ==
  last.act = "approval_created" =>
    \A e \in last.rows :
      approval_events[e] > 0 => db[e].state = PENDING_APPROVAL

\* C40: on the auto path, when an engine invocation returns, it has created
\* one Execution per take-profit level and each of them is in EXECUTED or
\* FAILED: none is left in PENDING, VALIDATED or EXECUTING, and the failure
\* of one Execution has not kept the following ones from being processed.
C40_AutoCompletes ==
  last.act = "auto_return" =>
    /\ Cardinality(last.rows) = Len(TPList(parsed_data))
    /\ \A e \in last.rows : db[e].state \in {EXECUTED, FAILED}

\* C40 amended: on the auto path, when an engine invocation returns, it has
\* created one Execution per take-profit level and each of them is in
\* EXECUTED or FAILED, or in CLOSED when a close request closed its position
\* before the invocation returned; none is left in PENDING, VALIDATED or
\* EXECUTING, and the failure of one Execution has not kept the following
\* ones from being processed.
C40_AutoResolved ==
  last.act = "auto_return" =>
    /\ Cardinality(last.rows) = Len(TPList(parsed_data))
    /\ \A e \in last.rows :
         /\ db[e].state \in {EXECUTED, FAILED, CLOSED}
         /\ db[e].state = CLOSED => db[e].ticket_number # None

\* an invocation for a two-TP signal returns: its first Execution failed at
\* the broker, the second was executed all the same
C40_Witness ==
  /\ last.act = "auto_return"
  /\ last.rows = {1, 2}
  /\ db[1].state = FAILED
  /\ db[1].execution_error = ErrorText
  /\ db[2].state = EXECUTED

====
